---------------------------- MODULE Spec2Model ----------------------------
(***************************************************************************)
(* A model of the DMS pipeline of dennyrgood/Scripts:                      *)
(*   dms_apply.py      (Document Reconciler, Section Locator, embedded     *)
(*                      Ledger snapshot)                                   *)
(*   dms_summarize.py  (Summarizer with its resumable Pending Summary Set) *)
(*                                                                         *)
(* Text is modelled at the level of lexemes.  A rendered document is a     *)
(* sequence of tokens [k |-> kind, v |-> characters]; a document offset is *)
(* the number of tokens that precede it, so content[:p] is SubSeq(d,1,p).  *)
(* Strings the code inspects character by character (category labels,     *)
(* headings, JSON text) are sequences of one-lexeme strings.               *)
(***************************************************************************)
EXTENDS Integers, Sequences, FiniteSets, TLC

(***************************************************************************)
(* Bounds of the model.                                                    *)
(***************************************************************************)
\* number of Apply invocations in one behaviour
MaxApplies == 2
\* largest value of the wall clock (seconds)
MaxClock == 1
\* number of Summarize invocations in one behaviour
MaxRuns == 3
\* longest description string of the Ledger round-trip inputs
MaxStrLen == 2

(***************************************************************************)
(* Sequences.                                                              *)
(***************************************************************************)
Range(s) == {s[i] : i \in 1..Len(s)}

\* content[:pos] + ins + content[pos:]
InsertAt(content, pos, ins) ==
    SubSeq(content, 1, pos) \o ins \o SubSeq(content, pos + 1, Len(content))

\* the least element of a set of positive integers, 0 for the empty set
MinOr0(S) == IF S = {} THEN 0 ELSE CHOOSE i \in S : \A j \in S : i <= j

RECURSIVE Concat(_)
Concat(ss) == IF ss = <<>> THEN <<>> ELSE Head(ss) \o Concat(Tail(ss))

(***************************************************************************)
(* Characters and Python's str methods.                                    *)
(***************************************************************************)
\* str.lower() on one character
LowerChar(c) == CASE c = "G" -> "g" [] c = "S" -> "s" [] OTHER -> c

\* str.lower()
Lower(s) == [i \in 1..Len(s) |-> LowerChar(s[i])]

IsSpace(c) == c = " "

\* str.strip()
Strip(s) ==
    IF \A i \in 1..Len(s) : IsSpace(s[i]) THEN <<>>
    ELSE LET a == CHOOSE i \in 1..Len(s) :
                     ~IsSpace(s[i]) /\ \A j \in 1..(i - 1) : IsSpace(s[j])
             b == CHOOSE i \in 1..Len(s) :
                     ~IsSpace(s[i]) /\ \A j \in (i + 1)..Len(s) : IsSpace(s[j])
         IN SubSeq(s, a, b)

\* a in b  (substring test)
Contains(b, a) ==
    \E i \in 0..(Len(b) - Len(a)) : SubSeq(b, i + 1, i + Len(a)) = a

\* set(s.split()): the maximal runs of non-space characters
Words(s) ==
    {SubSeq(s, p[1], p[2]) : p \in
        {q \in (1..Len(s)) \X (1..Len(s)) :
            /\ q[1] <= q[2]
            /\ \A i \in q[1]..q[2] : ~IsSpace(s[i])
            /\ (q[1] = 1 \/ IsSpace(s[q[1] - 1]))
            /\ (q[2] = Len(s) \/ IsSpace(s[q[2] + 1]))}}

\* html.escape() on one character
EscapeChar(c) ==
    CASE c = "&" -> <<"&", "a", "m", "p", ";">>
      [] c = "<" -> <<"&", "l", "t", ";">>
      [] c = ">" -> <<"&", "g", "t", ";">>
      [] c = "\"" -> <<"&", "q", "u", "o", "t", ";">>
      [] OTHER -> <<c>>

\* html.escape()
HtmlEscape(s) == Concat([i \in 1..Len(s) |-> EscapeChar(s[i])])

(***************************************************************************)
(* Tokens of the rendered document (index.html).                           *)
(*   section        <section class="category" data-category="v">           *)
(*   section_nocat  <section class="category">                             *)
(*   h2             <h2>v</h2>                                             *)
(*   ul, ul_close   <ul class="files">, </ul>                              *)
(*   li             one entry block; v = <<its data-path>>                 *)
(*   section_close, div_close, aside_close, body (<body>),                 *)
(*   body_attr (<body class="...">), text (any other markup)               *)
(*   state_open     "<!-- DMS_STATE" and the newline after it              *)
(*   c              one character of text in a comment; v = <<the char>>   *)
(***************************************************************************)
Tok(k, v) == [k |-> k, v |-> v]
T(k) == Tok(k, <<>>)
Ch(c) == Tok("c", <<c>>)

\* the characters of a text as document tokens
AsTokens(text) == [i \in 1..Len(text) |-> Ch(text[i])]

\* the index of the first token of a kind in K at or after from, 0 when
\* there is none
FirstKind(content, from, K) ==
    MinOr0({i \in from..Len(content) : content[i].k \in K})

\* the index of the first token of kind k with a non-empty text ([^"]+,
\* [^<]+) at or after from, 0 when there is none
FirstTagged(content, from, k) ==
    MinOr0({i \in from..Len(content) :
               content[i].k = k /\ content[i].v # <<>>})

\* the paths of the entry blocks of content[a+1 .. b], in document order
RECURSIVE EntryPaths(_)
EntryPaths(toks) ==
    IF toks = <<>> THEN <<>>
    ELSE (IF Head(toks).k = "li" THEN <<Head(toks).v[1]>> ELSE <<>>)
         \o EntryPaths(Tail(toks))

(***************************************************************************)
(* Section Locator: find_category_section.                                 *)
(* Not found is <<>>; a hit is <<ul_open_end, ul_close_start>>.            *)
(***************************************************************************)
\* re.search(r'</ul\s*>', content[ul_open_end:]) and the range returned
UlRange(content, ul_open_end) ==
    LET c == FirstKind(content, ul_open_end + 1, {"ul_close"})
    IN IF c = 0 THEN <<>> ELSE <<ul_open_end, c - 1>>

\* Strategy 1: one step of pattern.finditer from offset pos.  A match starts at
\* the first <section class="category" data-category="..."> with a non-empty
\* attribute ([^"]+) and runs (.*?, DOTALL) to the first <ul class="files">
\* after it; the next match is searched after the end of this one.
RECURSIVE Strategy1(_, _, _)
Strategy1(content, cat_normalized, pos) ==
    LET s == FirstTagged(content, pos + 1, "section")
    IN IF s = 0 THEN <<>>
       ELSE LET u == FirstKind(content, s + 1, {"ul"})
            IN IF u = 0 THEN <<>>
               ELSE IF Strip(Lower(content[s].v)) = cat_normalized
                       /\ UlRange(content, u) # <<>>
                    THEN UlRange(content, u)
                    ELSE Strategy1(content, cat_normalized, u)

\* cat_normalized in h2_text or h2_text in cat_normalized
HeadingMatch(cat_normalized, h2_text) ==
    Contains(h2_text, cat_normalized) \/ Contains(cat_normalized, h2_text)

\* a keyword test that wants every word of the label in the heading
WordOverlap_all(cat_normalized, h2_text) ==
    Words(cat_normalized) \subseteq Words(h2_text)

\* cat_words & h2_words
WordOverlap(cat_normalized, h2_text) ==
    Words(cat_normalized) \cap Words(h2_text) # {}

\* Strategies 2 and 3: one step of h2_pattern.finditer from offset pos, with
\* the test of that strategy (tier 2: HeadingMatch, tier 3: WordOverlap).  A
\* match starts at the first <section class="category" ...>, runs to the first
\* <h2>text</h2> with a non-empty text after it and on to the first
\* <ul class="files"> after that.
RECURSIVE StrategyH2(_, _, _, _)
StrategyH2(content, cat_normalized, pos, tier) ==
    LET s == FirstKind(content, pos + 1, {"section", "section_nocat"})
        h == IF s = 0 THEN 0 ELSE FirstTagged(content, s + 1, "h2")
    IN IF h = 0 THEN <<>>
       ELSE LET u == FirstKind(content, h + 1, {"ul"})
                h2_text == Lower(Strip(content[h].v))
                hit == IF tier = 2 THEN HeadingMatch(cat_normalized, h2_text)
                       ELSE WordOverlap(cat_normalized, h2_text)
            IN IF u = 0 THEN <<>>
               ELSE IF hit /\ UlRange(content, u) # <<>>
                    THEN UlRange(content, u)
                    ELSE StrategyH2(content, cat_normalized, u, tier)

\* the locator with the heading tier ahead of the key tier
find_category_section_heading_first(content, category) ==
    LET cat_normalized == Lower(Strip(category))
        r1 == Strategy1(content, cat_normalized, 0)
        r2 == StrategyH2(content, cat_normalized, 0, 2)
        r3 == StrategyH2(content, cat_normalized, 0, 3)
    IN IF r2 # <<>> THEN r2 ELSE IF r1 # <<>> THEN r1 ELSE r3

find_category_section(content, category) ==
    LET cat_normalized == Lower(Strip(category))
        r1 == Strategy1(content, cat_normalized, 0)
        r2 == StrategyH2(content, cat_normalized, 0, 2)
        r3 == StrategyH2(content, cat_normalized, 0, 3)
    IN IF r1 # <<>> THEN r1 ELSE IF r2 # <<>> THEN r2 ELSE r3

(***************************************************************************)
(* create_category_section and create_file_entry.                          *)
(***************************************************************************)
create_category_section(category, display_name) ==
    << Tok("section", HtmlEscape(category)),
       Tok("h2", HtmlEscape(IF display_name = <<>> THEN category
                            ELSE display_name)),
       T("ul"), T("ul_close"), T("section_close") >>

\* One <li class="file" data-path="..."> block for an approved item.
create_file_entry(item) == << Tok("li", <<item.path>>) >>

\* ''.join(create_file_entry(item, doc_dir) for item in items)
entries_html(items) ==
    Concat([i \in 1..Len(items) |-> create_file_entry(items[i])])

\* new_section.replace('</ul>', entries_html + '\n          </ul>')
RECURSIVE ReplaceUlClose(_, _)
ReplaceUlClose(new_section, entries) ==
    IF new_section = <<>> THEN <<>>
    ELSE (IF Head(new_section).k = "ul_close"
          THEN entries \o <<Head(new_section)>>
          ELSE <<Head(new_section)>>)
         \o ReplaceUlClose(Tail(new_section), entries)

\* re.search(r'</div>\s*</aside>', content): the offset of its start, or -1
ListsClose(content) ==
    LET S == {i \in 1..(Len(content) - 1) :
                 content[i].k = "div_close" /\ content[i + 1].k = "aside_close"}
    IN IF S = {} THEN -1 ELSE (CHOOSE i \in S : \A j \in S : i <= j) - 1

(***************************************************************************)
(* The Ledger (DMS_STATE) and its JSON text.                               *)
(* A Ledger is [processed_files, categories, last_scan]; processed_files   *)
(* is a Python dict, kept as the sequence of its items in insertion order, *)
(* each [path, hash, last_processed, title, description] (summary_approved *)
(* is always True).  JSON text is a sequence of lexemes; the insignificant *)
(* white space, ":" and "," that json.dumps(indent=2) writes are left out. *)
(***************************************************************************)
DefaultState == [processed_files |-> <<>>, categories |-> <<>>,
                 last_scan |-> "None"]

\* json.dumps of one character of a string
JEscapeChar(c) ==
    CASE c = "\"" -> <<"\\", "\"">>
      [] c = "\\" -> <<"\\", "\\">>
      [] c = "\n" -> <<"\\", "n">>
      [] OTHER -> <<c>>

\* json.dumps of a string
JStr(chars) ==
    <<"\"">> \o Concat([i \in 1..Len(chars) |-> JEscapeChar(chars[i])]) \o <<"\"">>

JKey(name) == JStr(<<name>>)

JEntry(e) ==
    JKey(e.path) \o <<"{">>
    \o JKey("hash") \o JKey(e.hash)
    \o JKey("last_processed") \o JKey(e.last_processed)
    \o JKey("summary_approved") \o <<"true">>
    \o JKey("title") \o JKey(e.title)
    \o JKey("description") \o JStr(e.description)
    \o <<"}">>

json_dumps(state) ==
    <<"{">>
    \o JKey("processed_files") \o <<"{">>
    \o Concat([i \in 1..Len(state.processed_files) |->
                  JEntry(state.processed_files[i])])
    \o <<"}">>
    \o JKey("categories") \o <<"[">>
    \o Concat([i \in 1..Len(state.categories) |-> JStr(state.categories[i])])
    \o <<"]">>
    \o JKey("last_scan")
    \o (IF state.last_scan = "None" THEN <<"null">> ELSE JKey(state.last_scan))
    \o <<"}">>

\* json.loads, the scanner: a string body from index i (after its opening
\* quote) to its closing quote, with the escapes undone.  A raw control
\* character or an unknown escape is an error.
RECURSIVE LexStr(_, _, _)
LexStr(text, i, acc) ==
    IF i > Len(text) THEN [ok |-> FALSE, s |-> acc, next |-> i]
    ELSE IF text[i] = "\"" THEN [ok |-> TRUE, s |-> acc, next |-> i + 1]
    ELSE IF text[i] = "\n" THEN [ok |-> FALSE, s |-> acc, next |-> i]
    ELSE IF text[i] = "\\"
         THEN IF i + 1 > Len(text) THEN [ok |-> FALSE, s |-> acc, next |-> i]
              ELSE IF text[i + 1] \in {"\"", "\\"}
                   THEN LexStr(text, i + 2, Append(acc, text[i + 1]))
              ELSE IF text[i + 1] = "n"
                   THEN LexStr(text, i + 2, Append(acc, "\n"))
              ELSE [ok |-> FALSE, s |-> acc, next |-> i]
    ELSE LexStr(text, i + 1, Append(acc, text[i]))

\* json.loads, the scanner: the items of a text, strings [t |-> "s"] and
\* punctuation or literals [t |-> "p"]; an item [t |-> "err"] ends a text that
\* is no JSON.
RECURSIVE Lex(_, _)
Lex(text, i) ==
    IF i > Len(text) THEN <<>>
    ELSE IF text[i] = "\""
         THEN LET r == LexStr(text, i + 1, <<>>)
              IN IF r.ok THEN <<[t |-> "s", s |-> r.s]>> \o Lex(text, r.next)
                 ELSE <<[t |-> "err", s |-> <<>>]>>
    ELSE IF text[i] \in {"{", "}", "[", "]", "true", "null"}
         THEN <<[t |-> "p", s |-> <<text[i]>>]>> \o Lex(text, i + 1)
    ELSE <<[t |-> "err", s |-> <<>>]>>

IsP(items, i, c) == i <= Len(items) /\ items[i] = [t |-> "p", s |-> <<c>>]
IsS(items, i) == i <= Len(items) /\ items[i].t = "s"
IsK(items, i, name) == i <= Len(items) /\ items[i] = [t |-> "s", s |-> <<name>>]
\* a string that holds one lexeme (a path, a hash, a time stamp, a title)
IsAtom(items, i) == IsS(items, i) /\ Len(items[i].s) = 1

\* the items of processed_files from item i: "path" { ... } ... up to its }
RECURSIVE ParseEntries(_, _, _)
ParseEntries(items, i, acc) ==
    IF IsP(items, i, "}") THEN [ok |-> TRUE, val |-> acc, next |-> i + 1]
    ELSE IF /\ IsAtom(items, i) /\ IsP(items, i + 1, "{")
            /\ IsK(items, i + 2, "hash") /\ IsAtom(items, i + 3)
            /\ IsK(items, i + 4, "last_processed") /\ IsAtom(items, i + 5)
            /\ IsK(items, i + 6, "summary_approved") /\ IsP(items, i + 7, "true")
            /\ IsK(items, i + 8, "title") /\ IsAtom(items, i + 9)
            /\ IsK(items, i + 10, "description") /\ IsS(items, i + 11)
            /\ IsP(items, i + 12, "}")
         THEN ParseEntries(items, i + 13,
                  Append(acc, [path |-> items[i].s[1],
                               hash |-> items[i + 3].s[1],
                               last_processed |-> items[i + 5].s[1],
                               title |-> items[i + 9].s[1],
                               description |-> items[i + 11].s]))
    ELSE [ok |-> FALSE, val |-> acc, next |-> i]

\* the items of categories from item i up to its ]
RECURSIVE ParseStrings(_, _, _)
ParseStrings(items, i, acc) ==
    IF IsP(items, i, "]") THEN [ok |-> TRUE, val |-> acc, next |-> i + 1]
    ELSE IF IsS(items, i) THEN ParseStrings(items, i + 1, Append(acc, items[i].s))
    ELSE [ok |-> FALSE, val |-> acc, next |-> i]

\* json.loads of a Ledger: [ok, val]; ok is FALSE where json.loads raises
json_loads(text) ==
    LET items == Lex(text, 1)
        bad == [ok |-> FALSE, val |-> DefaultState]
    IN IF ~(IsP(items, 1, "{") /\ IsK(items, 2, "processed_files")
            /\ IsP(items, 3, "{"))
       THEN bad
       ELSE LET pf == ParseEntries(items, 4, <<>>)
            IN IF ~(pf.ok /\ IsK(items, pf.next, "categories")
                    /\ IsP(items, pf.next + 1, "["))
               THEN bad
               ELSE LET cs == ParseStrings(items, pf.next + 2, <<>>)
                        n == cs.next
                    IN IF /\ cs.ok /\ IsK(items, n, "last_scan")
                          /\ (IsAtom(items, n + 1) \/ IsP(items, n + 1, "null"))
                          /\ IsP(items, n + 2, "}") /\ Len(items) = n + 2
                       THEN [ok |-> TRUE,
                             val |-> [processed_files |-> pf.val,
                                      categories |-> cs.val,
                                      last_scan |->
                                         IF IsP(items, n + 1, "null") THEN "None"
                                         ELSE items[n + 1].s[1]]]
                       ELSE bad

(***************************************************************************)
(* The embedded snapshot: extract_dms_state and update_dms_state.          *)
(***************************************************************************)
\* the index of the first "\n" that "-->" follows, at or after from, 0 when
\* there is none
FirstClose(content, from) ==
    MinOr0({i \in from..(Len(content) - 1) :
               content[i] = Ch("\n") /\ content[i + 1] = Ch("-->")})

\* re: '<!-- DMS_STATE\n(.*?)\n-->' searched from offset pos.  <<>> when there
\* is no match, else <<o, e>>: the match is content[o .. e + 1] and its group
\* content[o + 1 .. e - 1].
StateMatch(content, pos) ==
    LET o == FirstKind(content, pos + 1, {"state_open"})
        e == IF o = 0 THEN 0 ELSE FirstClose(content, o + 1)
    IN IF e = 0 THEN <<>> ELSE <<o, e>>

\* the characters of a run of tokens (match.group(1)); markup that is not a
\* comment character is no JSON
GroupText(toks) ==
    [i \in 1..Len(toks) |-> IF toks[i].k = "c" THEN toks[i].v[1] ELSE "<"]

extract_dms_state(content) ==
    LET m == StateMatch(content, 0)
    IN IF m = <<>> THEN DefaultState
       ELSE LET r == json_loads(GroupText(SubSeq(content, m[1] + 1, m[2] - 1)))
            IN IF r.ok THEN r.val ELSE DefaultState

\* f"<!-- DMS_STATE\n{state_json}\n-->"
new_state_block(new_state) ==
    <<T("state_open")>> \o AsTokens(json_dumps(new_state))
    \o <<Ch("\n"), Ch("-->")>>

\* state_pattern.sub(lambda m: new_state_block, content), from offset pos
RECURSIVE SubState(_, _, _)
SubState(content, pos, block) ==
    LET m == StateMatch(content, pos)
    IN IF m = <<>> THEN SubSeq(content, pos + 1, Len(content))
       ELSE SubSeq(content, pos + 1, m[1] - 1) \o block
            \o SubState(content, m[2] + 1, block)

\* content is the text read from index_path
update_dms_state(content, new_state) ==
    IF StateMatch(content, 0) # <<>>
    THEN SubState(content, 0, new_state_block(new_state))
    ELSE LET body_pos == FirstKind(content, 1, {"body"})
         IN IF body_pos # 0
            THEN InsertAt(content, body_pos, new_state_block(new_state))
            ELSE content

(***************************************************************************)
(* The files of the document root, time stamps and orderings.              *)
(***************************************************************************)
\* the logical paths of the model, in str order
PathList == <<"a.txt", "b.txt", "c.txt">>
Paths == Range(PathList)
PathRank(p) == CHOOSE i \in 1..Len(PathList) : PathList[i] = p

\* Path(abs_path).stem
Stem(p) == CASE p = "a.txt" -> "a" [] p = "b.txt" -> "b" [] OTHER -> "c"

\* a digest without the "sha256:" tag in front
compute_file_hash_untagged(bytes) ==
    CASE bytes = "missing" -> "sha256:missing"
      [] bytes = "bytes1" -> "1"
      [] OTHER -> "2"

\* compute_file_hash: bytes is the content of the file, "missing" when the
\* file does not exist
compute_file_hash(bytes) ==
    CASE bytes = "missing" -> "sha256:missing"
      [] bytes = "bytes1" -> "sha256:1"
      [] OTHER -> "sha256:2"

\* datetime.now().isoformat() and strftime('%Y%m%d%H%M%S') at clock value n
TimeStr(n) == ToString(n)

\* ord() of the characters labels are made of
CharRank(c) ==
    CASE c = " " -> 32 [] c = "&" -> 38 [] c = ";" -> 59 [] c = "G" -> 71
      [] c = "S" -> 83 [] c = "a" -> 97 [] c = "g" -> 103 [] c = "m" -> 109
      [] c = "n" -> 110 [] c = "p" -> 112 [] c = "s" -> 115 [] OTHER -> 120

\* a < b for two strings
RECURSIVE StrLess(_, _)
StrLess(a, b) ==
    IF b = <<>> THEN FALSE
    ELSE IF a = <<>> THEN TRUE
    ELSE IF CharRank(Head(a)) # CharRank(Head(b))
         THEN CharRank(Head(a)) < CharRank(Head(b))
    ELSE StrLess(Tail(a), Tail(b))

\* sorted(list(a_set)) for a set of labels
RECURSIVE SortedLabels(_)
SortedLabels(S) ==
    IF S = {} THEN <<>>
    ELSE LET m == CHOOSE x \in S : \A y \in S : ~StrLess(y, x)
         IN <<m>> \o SortedLabels(S \ {m})

\* a < b for two runs of entry blocks (str order of their HTML, which is the
\* order of the data-path of the first block in which they differ)
RECURSIVE HtmlLess(_, _)
HtmlLess(a, b) ==
    IF b = <<>> THEN FALSE
    ELSE IF a = <<>> THEN TRUE
    ELSE IF Head(a).v[1] # Head(b).v[1]
         THEN PathRank(Head(a).v[1]) < PathRank(Head(b).v[1])
    ELSE HtmlLess(Tail(a), Tail(b))

\* a < b for two (position, html) tuples
TupleLess(a, b) ==
    \/ a.position < b.position
    \/ a.position = b.position /\ HtmlLess(a.html, b.html)

\* sorted(insertions, reverse=True)
RECURSIVE SortedReverse(_)
SortedReverse(ins) ==
    IF ins = <<>> THEN <<>>
    ELSE LET m == CHOOSE i \in 1..Len(ins) :
                     \A j \in 1..Len(ins) : ~TupleLess(ins[i], ins[j])
         IN <<ins[m]>> \o
            SortedReverse(SubSeq(ins, 1, m - 1) \o SubSeq(ins, m + 1, Len(ins)))

(***************************************************************************)
(* apply_changes, its pure steps.  An approved item is                     *)
(* [path, category, summary, file_keys]; file_keys says that item['file']  *)
(* carries the keys abs_path and ext that create_file_entry reads.         *)
(***************************************************************************)
\* by_category, its keys in insertion order
RECURSIVE CategoryOrder(_, _)
CategoryOrder(items, seen) ==
    IF items = <<>> THEN <<>>
    ELSE IF Head(items).category \in seen
         THEN CategoryOrder(Tail(items), seen)
    ELSE <<Head(items).category>>
         \o CategoryOrder(Tail(items), seen \cup {Head(items).category})

\* by_category[cat]
ItemsOf(items, cat) == SelectSeq(items, LAMBDA it : it.category = cat)

\* for category, items in by_category.items(): ...  (lines 225-250)
\* acc = [insertions, new_categories_html, existing_categories, out]
RECURSIVE ApplyLoop(_, _, _, _)
ApplyLoop(doc, items, cats, acc) ==
    IF cats = <<>> THEN acc
    ELSE LET category == Head(cats)
             cat_position == find_category_section(doc, category)
             entries == entries_html(ItemsOf(items, category))
             new_section ==
                 ReplaceUlClose(create_category_section(category, category),
                                entries)
         IN IF cat_position # <<>>
            THEN ApplyLoop(doc, items, Tail(cats),
                    [acc EXCEPT
                       !.insertions = Append(@, [position |-> cat_position[2],
                                                 html |-> entries]),
                       !.out = Append(@, [msg |-> "Found existing category section",
                                          category |-> category])])
            ELSE ApplyLoop(doc, items, Tail(cats),
                    [acc EXCEPT
                       !.new_categories_html = Append(@, new_section),
                       !.existing_categories = @ \cup {category},
                       !.out = Append(@, [msg |-> "Category not found, will create new section",
                                          category |-> category])])

\* for position, html_content in sorted(insertions, reverse=True): ...
RECURSIVE ApplyInsertions(_, _)
ApplyInsertions(doc, sorted_ins) ==
    IF sorted_ins = <<>> THEN doc
    ELSE ApplyInsertions(InsertAt(doc, Head(sorted_ins).position,
                                  Head(sorted_ins).html),
                         Tail(sorted_ins))

\* lines 257-263: the new sections go before </div></aside>, when it is there
InsertNewCategories(doc, new_html) ==
    IF new_html = <<>> \/ ListsClose(doc) = -1 THEN doc
    ELSE InsertAt(doc, ListsClose(doc), Concat(new_html))

\* state['processed_files'][path] = value (a dict assignment)
DictSet(pf, value) ==
    IF \E i \in 1..Len(pf) : pf[i].path = value.path
    THEN [i \in 1..Len(pf) |-> IF pf[i].path = value.path THEN value ELSE pf[i]]
    ELSE Append(pf, value)

\* lines 266-277
RECURSIVE UpdateProcessed(_, _, _, _)
UpdateProcessed(pf, items, fs, t) ==
    IF items = <<>> THEN pf
    ELSE UpdateProcessed(
            DictSet(pf, [path |-> Head(items).path,
                         hash |-> compute_file_hash(fs[Head(items).path]),
                         last_processed |-> TimeStr(t),
                         title |-> Stem(Head(items).path),
                         description |-> Head(items).summary]),
            Tail(items), fs, t)

\* line 282 reads the file again: update_dms_state(index_path, state) starts
\* from the text on disk, not from the content with the insertions made
FinalContent(disk, edited, new_state) == update_dms_state(disk, new_state)

\* lines 209-250: the state read from the document and the loop over the
\* categories of the approved items
LoopResult(disk, items) ==
    ApplyLoop(disk, items, CategoryOrder(items, {}),
              [insertions |-> <<>>,
               new_categories_html |-> <<>>,
               existing_categories |-> Range(extract_dms_state(disk).categories),
               out |-> <<>>])

\* lines 252-263: content after the insertions and the new sections
EditedContent(disk, loop) ==
    InsertNewCategories(ApplyInsertions(disk, SortedReverse(loop.insertions)),
                        loop.new_categories_html)

\* a state built for the approved items alone, not on the one read
UpdatedState_fresh(disk, loop, items, fs, t) ==
    [processed_files |-> UpdateProcessed(<<>>, items, fs, t),
     categories |-> SortedLabels(loop.existing_categories),
     last_scan |-> TimeStr(t)]

\* lines 265-280: the state as updated for the approved items, with the files
\* fs of the document root at clock time t
UpdatedState(disk, loop, items, fs, t) ==
    [processed_files |->
        UpdateProcessed(extract_dms_state(disk).processed_files, items, fs, t),
     categories |-> SortedLabels(loop.existing_categories),
     last_scan |-> TimeStr(t)]

(***************************************************************************)
(* State.                                                                  *)
(***************************************************************************)
VARIABLES
    index_html,     \* Doc/index.html on disk: the rendered document
    backups,        \* index.html.bak.<time>: time |-> content, <<>> when absent
    now,            \* the wall clock, in seconds
    files,          \* path |-> content of the file ("missing": no such file)
    pending,        \* Doc/.dms_pending.json: [exists, approved_summaries]
    pc,             \* where the running dms_apply.py is
    content,        \* apply_changes: content
    state,          \* apply_changes: state
    insertions,     \* apply_changes: insertions
    new_categories_html, \* apply_changes: new_categories_html
    approved_summaries,  \* apply_changes: its argument
    out,            \* what the running (or last) invocation has printed
    pre_index,      \* index.html as it was when apply_changes began
    applies,        \* number of dms_apply.py invocations so far
    staged,         \* the approved set the operator's review produces
    applied,        \* the approved set of the last Apply that ran to its end
    n_backups,      \* backups the running or last Apply has taken
    n_writes,       \* rewrites of index.html by the running or last Apply
    scan_json,      \* Doc/.dms_scan.json, the Change Report: [exists, files]
    pending_summaries, \* Doc/.dms_pending_summaries.json: [exists, valid, summaries]
    spc,            \* where the running dms_summarize.py is
    dry_run,        \* main: args.dry_run
    summaries,      \* main: summaries
    already_done,   \* main: already_done
    files_to_process, \* main: files_to_process
    sum_i,          \* main: the index of the for loop, from 1
    called,         \* the paths this run has asked the backend to summarize
    killed_generated, \* the paths the last run had summaries for when killed
    runs,           \* number of dms_summarize.py invocations so far
    ollama,         \* what GET /api/tags gave the last run, "none" before
    sum_exit,       \* dms_summarize.py: exit status of the last run
    sum_out,        \* dms_summarize.py: the last run's closing message
    folded,         \* the paths of the Change Report that Apply has folded
                    \* into the Ledger since the last Scan
    ledger,         \* the Ledger handed to update_dms_state
    extracted,      \* what extract_dms_state returned
    rpc,            \* where the embed-and-extract round trip is
    loc_category,   \* find_category_section: category
    loc_result,     \* find_category_section: what it returned
    lpc,            \* whether find_category_section has been called
    state_json,     \* Doc/.dms_state.json: [exists, valid, state]
    mig_exit,       \* dms_migrate_to_json.py: its exit status, "none" before
    cpc,            \* where the running dms_cleanup.py is
    clean_state,    \* dms_cleanup.py main: state
    missing_files,  \* dms_cleanup.py main: missing_files
    clean_exit,     \* dms_cleanup.py: its exit status, "none" before
    renders,        \* how often dms_cleanup.py has run the render script
    opc,            \* where the running dms_image_to_text.py is
    tesseract,      \* whether the OCR binary is installed
    all_images,     \* dms_image_to_text.py main: all_images
    ocr_i,          \* dms_image_to_text.py main: index of the loop, from 1
    converted,      \* dms_image_to_text.py main: converted
    ocr_out,        \* what dms_image_to_text.py has printed
    ocr_exit,       \* dms_image_to_text.py: its exit status, "none" before
    dpc,            \* where the running dms_delete_entry.py is
    del_args,       \* dms_delete_entry.py: the command line and the answers
    del_state,      \* dms_delete_entry.py main: state
    del_before,     \* .dms_state.json as it was when the command began
    del_exit        \* dms_delete_entry.py: how it ended, "none" before

apply_vars == << index_html, backups, now, pending, pc, content, state,
                 insertions, new_categories_html, approved_summaries, out,
                 pre_index, applies, staged, applied, n_backups,
                 n_writes >>

sum_vars == << scan_json, pending_summaries, spc, dry_run, summaries,
               already_done, files_to_process, sum_i, called,
               killed_generated, runs, ollama, sum_exit, sum_out,
               folded >>

rt_vars == << ledger, extracted, rpc >>

loc_vars == << loc_category, loc_result, lpc >>

mig_vars == << state_json, mig_exit >>

clean_vars == << cpc, clean_state, missing_files, clean_exit, renders >>

ocr_vars == << opc, tesseract, all_images, ocr_i, converted, ocr_out,
               ocr_exit >>

del_vars == << dpc, del_args, del_state, del_before, del_exit >>

aux_vars == << loc_vars, mig_vars, clean_vars, ocr_vars, del_vars >>

vars == << apply_vars, files, sum_vars, rt_vars, aux_vars >>

\* the tools that a specification leaves alone have not run
LocatorIdle ==
    /\ loc_category = <<>>
    /\ loc_result = <<>>
    /\ lpc = "idle"

NoStateFile == [exists |-> FALSE, valid |-> FALSE, state |-> <<>>]

MigrateIdle ==
    /\ state_json = NoStateFile
    /\ mig_exit = "none"

CleanupIdle ==
    /\ cpc = "idle"
    /\ clean_state = <<>>
    /\ missing_files = <<>>
    /\ clean_exit = "none"
    /\ renders = 0

DeleteIdle ==
    /\ dpc = "idle"
    /\ del_args = <<>>
    /\ del_state = <<>>
    /\ del_before = NoStateFile
    /\ del_exit = "none"

OcrIdle ==
    /\ opc = "idle"
    /\ tesseract = TRUE
    /\ all_images = <<>>
    /\ ocr_i = 0
    /\ converted = 0
    /\ ocr_out = <<>>
    /\ ocr_exit = "none"

(***************************************************************************)
(* The documents and approved sets the model starts from.                  *)
(***************************************************************************)
Guides == <<"G">>
guides == <<"g">>
Scripts == <<"S">>
Notes == <<"n">>

Li(p) == Tok("li", <<p>>)

\* <section class="category" data-category="g"><h2>G</h2><ul class="files">
\*   (k entries) </ul></section>
SecGuides(entries) ==
    <<Tok("section", guides), Tok("h2", Guides), T("ul")>> \o entries
    \o <<T("ul_close"), T("section_close")>>

\* a section found by its heading only
SecScripts(entries) ==
    <<T("section_nocat"), Tok("h2", Scripts), T("ul")>> \o entries
    \o <<T("ul_close"), T("section_close")>>

SectionLayouts ==
    { <<>>,
      SecGuides(<<Li("a.txt")>>),
      SecGuides(<<Li("a.txt")>>) \o SecScripts(<<>>),
      SecScripts(<<Li("b.txt")>>) \o SecGuides(<<>>) }

\* the Ledger an earlier Apply left in a document with these sections
LedgerOf(secs) ==
    LET ps == EntryPaths(secs)
    IN [processed_files |->
           [i \in 1..Len(ps) |-> [path |-> ps[i], hash |-> "sha256:1",
                                  last_processed |-> TimeStr(0),
                                  title |-> Stem(ps[i]),
                                  description |-> <<"x">>]],
        categories |-> IF secs = <<>> THEN <<>> ELSE <<guides>>,
        last_scan |-> TimeStr(0)]

BodyTag(kind) ==
    CASE kind = "body" -> <<T("body")>>
      [] kind = "body_attr" -> <<T("body_attr")>>
      [] OTHER -> <<>>

Snapshot(kind, secs) ==
    CASE kind = "valid" -> new_state_block(LedgerOf(secs))
      [] kind = "malformed" -> <<T("state_open"), Ch("{"), Ch("\n"), Ch("-->")>>
      [] OTHER -> <<>>

Document(body, snap, anchor, secs) ==
    <<T("text")>> \o BodyTag(body) \o Snapshot(snap, secs) \o <<T("text")>>
    \o secs
    \o (IF anchor THEN <<T("div_close"), T("aside_close")>>
        ELSE <<T("div_close"), T("text")>>)

\* every shell (body tag, snapshot) around two sections, and every section
\* layout, with and without the container anchor, in the usual shell
Documents ==
    { Document(b, s, TRUE, SecGuides(<<Li("a.txt")>>) \o SecScripts(<<>>)) :
        b \in {"body", "body_attr", "none"},
        s \in {"valid", "malformed", "none"} }
    \cup { Document("body", "valid", TRUE, secs) : secs \in SectionLayouts }
    \cup { Document("body", "valid", FALSE, secs) :
             secs \in {<<>>, SecGuides(<<Li("a.txt")>>) \o SecScripts(<<>>)} }

Item(p, c, keys) ==
    [path |-> p, category |-> c, summary |-> <<"y">>, file_keys |-> keys]

ApprovedSets ==
    { <<>>, <<Item("c.txt", Guides, FALSE)>> }
    \cup { <<Item(p, c, TRUE)>> :
             p \in {"a.txt", "c.txt"}, c \in {Guides, Notes} }
    \cup { <<Item("b.txt", c, TRUE), Item("c.txt", d, TRUE)>> :
             c \in {Guides, Scripts, Notes}, d \in {guides, Scripts, Notes} }

\* the locals of a process that is not running
NoLocals ==
    /\ content = <<>>
    /\ state = DefaultState
    /\ insertions = <<>>
    /\ new_categories_html = <<>>
    /\ approved_summaries = <<>>

\* the process ends and its memory goes
DropLocals ==
    /\ content' = <<>>
    /\ state' = DefaultState
    /\ insertions' = <<>>
    /\ new_categories_html' = <<>>
    /\ approved_summaries' = <<>>

InitApply ==
    /\ DeleteIdle
    /\ index_html \in Documents
    /\ backups = [t \in 0..MaxClock |-> <<>>]
    /\ now = 0
    /\ files = [p \in Paths |-> "bytes1"]
    /\ pending = [exists |-> FALSE, approved_summaries |-> <<>>]
    /\ pc = "idle"
    /\ NoLocals
    /\ out = <<>>
    /\ pre_index = <<>>
    /\ applies = 0
    /\ staged \in ApprovedSets
    /\ applied = <<>>
    /\ n_backups = 0
    /\ n_writes = 0
    /\ LocatorIdle /\ MigrateIdle /\ CleanupIdle /\ OcrIdle
    /\ scan_json = [exists |-> FALSE, files |-> <<>>]
    /\ pending_summaries = [exists |-> FALSE, valid |-> FALSE,
                            summaries |-> <<>>]
    /\ spc = "idle"
    /\ dry_run = FALSE
    /\ summaries = <<>>
    /\ already_done = {}
    /\ files_to_process = <<>>
    /\ sum_i = 0
    /\ called = {}
    /\ killed_generated = {}
    /\ runs = 0
    /\ ollama = "none"
    /\ sum_exit = "none"
    /\ sum_out = <<>>
    /\ folded = {}
    /\ ledger = DefaultState
    /\ extracted = DefaultState
    /\ rpc = "idle"

(***************************************************************************)
(* dms_apply.py                                                            *)
(***************************************************************************)
\* The review stage leaves the approved set in .dms_pending.json.
Review ==
    /\ UNCHANGED << sum_vars, rt_vars, aux_vars >>
    /\ pc = "idle"
    /\ ~pending.exists
    /\ applies < MaxApplies
    /\ pending' = [exists |-> TRUE, approved_summaries |-> staged]
    /\ UNCHANGED << index_html, backups, now, files, pc, content, state,
                    insertions, new_categories_html, approved_summaries, out,
                    pre_index, applies, staged, applied, n_backups,
                    n_writes >>

\* main() up to the call, and apply_changes lines 207-282: everything that
\* happens in memory.  A missing pending file and an empty approved list end
\* the run at once; an item without the keys create_file_entry reads raises
\* KeyError and ends it with nothing written.  t is the time the clock shows
\* when apply_changes reads it.
ApplyCompute ==
    /\ UNCHANGED << sum_vars, rt_vars, aux_vars >>
    /\ pc = "idle"
    /\ applies < MaxApplies
    /\ applies' = applies + 1
    /\ pre_index' = index_html
    /\ UNCHANGED << index_html, backups, files, pending, staged, applied >>
    /\ n_backups' = 0
    /\ n_writes' = 0
    /\ IF ~pending.exists
       THEN /\ out' = <<[msg |-> "ERROR: No pending report found.",
                         category |-> <<>>]>>
            /\ pc' = "idle"
            /\ UNCHANGED << now, content, state, insertions,
                            new_categories_html, approved_summaries >>
       ELSE IF pending.approved_summaries = <<>>
       THEN /\ out' = <<[msg |-> "No approved summaries to apply.",
                         category |-> <<>>]>>
            /\ pc' = "idle"
            /\ UNCHANGED << now, content, state, insertions,
                            new_categories_html, approved_summaries >>
       ELSE IF \E i \in 1..Len(pending.approved_summaries) :
                   ~pending.approved_summaries[i].file_keys
       THEN /\ out' = <<[msg |-> "KeyError", category |-> <<>>]>>
            /\ pc' = "idle"
            /\ UNCHANGED << now, content, state, insertions,
                            new_categories_html, approved_summaries >>
       ELSE \E t \in now..MaxClock :
            \E loop \in {LoopResult(index_html, pending.approved_summaries)} :
            \E new_state \in {UpdatedState(index_html, loop,
                                           pending.approved_summaries, files, t)} :
               /\ now' = t
               /\ approved_summaries' = pending.approved_summaries
               /\ insertions' = loop.insertions
               /\ new_categories_html' = loop.new_categories_html
               /\ state' = new_state
               /\ content' = FinalContent(index_html,
                                          EditedContent(index_html, loop),
                                          new_state)
               /\ out' = loop.out
               /\ pc' = "computed"

\* a backup step that saves the new content instead of the file on disk
ApplyBackup_content ==
    /\ UNCHANGED << sum_vars, rt_vars, aux_vars >>
    /\ pc = "computed"
    /\ backups' = [backups EXCEPT ![now] = content]
    /\ out' = Append(out, [msg |-> "Backed up to", category |-> <<>>])
    /\ pc' = "backed_up"
    /\ UNCHANGED << index_html, now, files, pending, content, state,
                    insertions, new_categories_html, approved_summaries,
                    pre_index, applies, staged, applied, n_writes >>
    /\ n_backups' = n_backups + 1

\* shutil.copy2(index_path, backup_path)
ApplyBackup ==
    /\ UNCHANGED << sum_vars, rt_vars, aux_vars >>
    /\ pc = "computed"
    /\ backups' = [backups EXCEPT ![now] = index_html]
    /\ out' = Append(out, [msg |-> "Backed up to", category |-> <<>>])
    /\ pc' = "backed_up"
    /\ UNCHANGED << index_html, now, files, pending, content, state,
                    insertions, new_categories_html, approved_summaries,
                    pre_index, applies, staged, applied, n_writes >>
    /\ n_backups' = n_backups + 1

\* a write step that does not wait for the backup
ApplyWrite_unbacked ==
    /\ UNCHANGED << sum_vars, rt_vars, aux_vars >>
    /\ pc \in {"computed", "backed_up"}
    /\ index_html' = content
    /\ out' = Append(out, [msg |-> "Updated", category |-> <<>>])
    /\ pc' = "written"
    /\ UNCHANGED << backups, now, files, pending, content, state,
                    insertions, new_categories_html, approved_summaries,
                    pre_index, applies, staged, applied, n_backups >>
    /\ n_writes' = n_writes + 1

\* index_path.write_text(content)
ApplyWrite ==
    /\ UNCHANGED << sum_vars, rt_vars, aux_vars >>
    /\ pc = "backed_up"
    /\ index_html' = content
    /\ out' = Append(out, [msg |-> "Updated", category |-> <<>>])
    /\ pc' = "written"
    /\ UNCHANGED << backups, now, files, pending, content, state,
                    insertions, new_categories_html, approved_summaries,
                    pre_index, applies, staged, applied, n_backups >>
    /\ n_writes' = n_writes + 1

\* an end of main that leaves the pending file where it is
ApplyFinish_keep ==
    /\ UNCHANGED << sum_vars, rt_vars, aux_vars >>
    /\ pc = "written"
    /\ out' = Append(out, [msg |-> "Changes applied successfully!",
                           category |-> <<>>])
    /\ pc' = "idle"
    /\ DropLocals
    /\ applied' = approved_summaries
    /\ UNCHANGED << n_backups, n_writes >>
    /\ UNCHANGED << index_html, backups, now, files, pending, pre_index,
                    applies, staged >>

\* main() after the call: pending_path.unlink()
ApplyFinish ==
    /\ UNCHANGED << sum_vars, rt_vars, aux_vars >>
    /\ pc = "written"
    /\ pending' = [exists |-> FALSE, approved_summaries |-> <<>>]
    /\ out' = Append(out, [msg |-> "Changes applied successfully!",
                           category |-> <<>>])
    /\ pc' = "idle"
    /\ DropLocals
    /\ applied' = approved_summaries
    /\ UNCHANGED << n_backups, n_writes >>
    /\ UNCHANGED << index_html, backups, now, files, pre_index, applies,
                    staged >>

\* the process is killed between two of its steps
ApplyKilled ==
    /\ UNCHANGED << sum_vars, rt_vars, aux_vars >>
    /\ pc \in {"computed", "backed_up", "written"}
    /\ pc' = "idle"
    /\ DropLocals
    /\ out' = <<>>
    /\ UNCHANGED << index_html, backups, now, files, pending, pre_index,
                    applies, staged, applied, n_backups,
                    n_writes >>

NextApply ==
    \/ Review
    \/ ApplyCompute
    \/ ApplyBackup
    \/ ApplyWrite
    \/ ApplyFinish
    \/ ApplyKilled

SpecApply == InitApply /\ [][NextApply]_vars

(***************************************************************************)
(* dms_summarize.py                                                        *)
(***************************************************************************)
\* categorize_file.  A summary is a sequence of words; the keywords are
\* single words here, and no path of the model contains one.
InSummary(keywords, summary_lower) ==
    \E i \in 1..Len(summary_lower) : summary_lower[i] \in keywords

categorize_file(file_path, summary) ==
    IF InSummary({"setup", "install", "guide", "howto", "tutorial"}, summary)
    THEN "Guides"
    ELSE IF InSummary({"model", "training", "weight", "lora"}, summary)
    THEN "Models"
    ELSE IF InSummary({"script", "code", "command", "bash", "python"}, summary)
    THEN "Scripts"
    ELSE IF InSummary({"workflow", "process", "procedure", "optimization"},
                      summary)
    THEN "Workflows"
    ELSE IF InSummary({"quick", "reference", "cheat", "faq", "tip"}, summary)
    THEN "QuickRefs"
    ELSE "Guides"

\* the entry main() appends for one file (the timestamp is left out)
SummaryEntry(file_info, summary) ==
    [file |-> [path |-> file_info.path, hash |-> file_info.hash],
     summary |-> summary,
     category |-> categorize_file(file_info.path, summary),
     title |-> Stem(file_info.path)]

\* {s['file']['path'] for s in existing.get('summaries', [])}
PathsOf(entries) == { entries[i].file.path : i \in 1..Len(entries) }

\* the filter without its condition
FilesToProcess_unfiltered(files_to_summarize, done) == files_to_summarize

\* [f for f in files_to_summarize if f.get('path') not in already_done]
FilesToProcess(files_to_summarize, done) ==
    SelectSeq(files_to_summarize, LAMBDA f : f.path \notin done)

\* what generate_summary can return for a file: a summary, or None
BackendSummaries == { <<"notes">>, <<"a", "script">> }

\* The Change Report of one Scan: new_files + changed_files.  The scanner
\* puts every file in at most one bucket, so no path occurs twice.
FileInfo(p) == [path |-> p, hash |-> compute_file_hash("bytes1")]

ChangeReports ==
    { <<>> }
    \cup { <<FileInfo(p)>> : p \in Paths }
    \cup { <<FileInfo(pq[1]), FileInfo(pq[2])>> :
             pq \in { x \in Paths \X Paths : x[1] # x[2] } }
    \cup { <<FileInfo("a.txt"), FileInfo("b.txt"), FileInfo("c.txt")>>,
           <<FileInfo("c.txt"), FileInfo("a.txt"), FileInfo("b.txt")>> }

NoPendingSummaries == [exists |-> FALSE, valid |-> FALSE, summaries |-> <<>>]

DropSumLocals ==
    /\ summaries' = <<>>
    /\ already_done' = {}
    /\ files_to_process' = <<>>
    /\ sum_i' = 0
    /\ dry_run' = FALSE

\* the state of the tools this specification leaves alone
ApplyIdle ==
    /\ index_html = Document("body", "valid", TRUE, SecGuides(<<Li("a.txt")>>))
    /\ backups = [t \in 0..MaxClock |-> <<>>]
    /\ now = 0
    /\ pending = [exists |-> FALSE, approved_summaries |-> <<>>]
    /\ pc = "idle"
    /\ NoLocals
    /\ out = <<>>
    /\ pre_index = <<>>
    /\ applies = 0
    /\ staged = <<>>
    /\ applied = <<>>
    /\ n_backups = 0
    /\ n_writes = 0

RoundTripIdle ==
    /\ ledger = DefaultState
    /\ extracted = DefaultState
    /\ rpc = "idle"

SummarizeIdle ==
    /\ scan_json = [exists |-> FALSE, files |-> <<>>]
    /\ pending_summaries = NoPendingSummaries
    /\ spc = "idle"
    /\ dry_run = FALSE
    /\ summaries = <<>>
    /\ already_done = {}
    /\ files_to_process = <<>>
    /\ sum_i = 0
    /\ called = {}
    /\ killed_generated = {}
    /\ runs = 0
    /\ ollama = "none"
    /\ sum_exit = "none"
    /\ sum_out = <<>>
    /\ folded = {}

InitSummarize ==
    /\ DeleteIdle
    /\ ApplyIdle
    /\ LocatorIdle /\ MigrateIdle /\ CleanupIdle /\ OcrIdle
    /\ RoundTripIdle
    /\ files \in { [p \in Paths |-> "bytes1"],
                   [p \in Paths |-> IF p = "c.txt" THEN "missing" ELSE "bytes1"] }
    /\ scan_json \in { [exists |-> FALSE, files |-> <<>>] }
                     \cup { [exists |-> TRUE, files |-> r] : r \in ChangeReports }
    /\ pending_summaries = NoPendingSummaries
    /\ spc = "idle"
    /\ dry_run = FALSE
    /\ summaries = <<>>
    /\ already_done = {}
    /\ files_to_process = <<>>
    /\ sum_i = 0
    /\ called = {}
    /\ killed_generated = {}
    /\ runs = 0
    /\ ollama = "none"
    /\ sum_exit = "none"
    /\ sum_out = <<>>
    /\ folded = {}

\* what GET {host}/api/tags can give: no connection, a status other than
\* 200, a model list without the configured model, a list with it
OllamaResponses == {"unreachable", "status500", "no_model", "ok"}

\* a check that takes every answer for a running backend
check_ollama_always(resp) == TRUE

\* check_ollama: the request raised, status_code != 200, or no tag name
\* holds the model
check_ollama(resp) ==
    CASE resp = "unreachable" -> FALSE
      [] resp = "status500" -> FALSE
      [] resp = "no_model" -> FALSE
      [] OTHER -> TRUE

CannotConnect == <<"ERROR: Cannot connect to Ollama">>
NoFilesToSummarize == <<"No files to summarize.">>

\* main() lines 102-150: the backend check, the Change Report, the partial
\* progress of an earlier run, the filter.  A pending file that does not
\* parse leaves summaries empty and already_done empty.
SumStart ==
    /\ UNCHANGED << apply_vars, files, rt_vars, aux_vars, folded >>
    /\ spc = "idle"
    /\ runs < MaxRuns
    /\ runs' = runs + 1
    /\ called' = {}
    /\ UNCHANGED << scan_json, pending_summaries >>
    /\ \E resp \in OllamaResponses, dry \in BOOLEAN :
          /\ ollama' = resp
          /\ IF ~check_ollama(resp)
             THEN /\ spc' = "idle"
                  /\ sum_exit' = "1"
                  /\ sum_out' = CannotConnect
                  /\ killed_generated' = {}
                  /\ UNCHANGED << dry_run, summaries, already_done,
                                  files_to_process, sum_i >>
             ELSE IF ~scan_json.exists \/ scan_json.files = <<>>
             THEN /\ spc' = "idle"
                  /\ sum_exit' = "0"
                  /\ sum_out' = NoFilesToSummarize
                  /\ killed_generated' = {}
                  /\ UNCHANGED << dry_run, summaries, already_done,
                                  files_to_process, sum_i >>
             ELSE
               /\ sum_exit' = "none"
               /\ sum_out' = <<>>
               /\ dry_run' = dry
               /\ summaries' = IF pending_summaries.exists
                                  /\ pending_summaries.valid
                               THEN pending_summaries.summaries
                               ELSE <<>>
               /\ already_done' = IF pending_summaries.exists
                                     /\ pending_summaries.valid
                                  THEN PathsOf(pending_summaries.summaries)
                                  ELSE {}
               /\ files_to_process' =
                      FilesToProcess(scan_json.files, already_done')
               /\ sum_i' = 1
               /\ spc' = "loop"
               /\ UNCHANGED killed_generated

\* lines 152-160: the file of this iteration is gone
SumFileNotFound ==
    /\ UNCHANGED << apply_vars, files, rt_vars, aux_vars, folded >>
    /\ spc = "loop"
    /\ sum_i <= Len(files_to_process)
    /\ files[files_to_process[sum_i].path] = "missing"
    /\ sum_i' = sum_i + 1
    /\ UNCHANGED << scan_json, pending_summaries, spc, dry_run, summaries,
                    already_done, files_to_process, called, killed_generated,
                    runs, ollama, sum_exit, sum_out >>

\* lines 162-183: the backend returns a summary
SumFileSummarized ==
    /\ UNCHANGED << apply_vars, files, rt_vars, aux_vars, folded >>
    /\ spc = "loop"
    /\ sum_i <= Len(files_to_process)
    /\ files[files_to_process[sum_i].path] # "missing"
    /\ called' = called \cup {files_to_process[sum_i].path}
    /\ \E summary \in BackendSummaries :
          summaries' = Append(summaries,
                              SummaryEntry(files_to_process[sum_i], summary))
    /\ sum_i' = sum_i + 1
    /\ UNCHANGED << scan_json, pending_summaries, spc, dry_run, already_done,
                    files_to_process, killed_generated, runs, ollama,
                    sum_exit, sum_out >>

\* lines 162-166, 184-185: the backend fails, generate_summary returns None
SumFileFailed ==
    /\ UNCHANGED << apply_vars, files, rt_vars, aux_vars, folded >>
    /\ spc = "loop"
    /\ sum_i <= Len(files_to_process)
    /\ files[files_to_process[sum_i].path] # "missing"
    /\ called' = called \cup {files_to_process[sum_i].path}
    /\ sum_i' = sum_i + 1
    /\ UNCHANGED << scan_json, pending_summaries, spc, dry_run, summaries,
                    already_done, files_to_process, killed_generated, runs,
                    ollama, sum_exit, sum_out >>

\* a dry run that saves its summaries all the same
SumDryRun_saving ==
    /\ UNCHANGED << apply_vars, files, rt_vars, aux_vars, folded >>
    /\ spc = "loop"
    /\ sum_i > Len(files_to_process)
    /\ dry_run
    /\ pending_summaries' = [exists |-> TRUE, valid |-> TRUE,
                             summaries |-> summaries]
    /\ spc' = "idle"
    /\ killed_generated' = {}
    /\ DropSumLocals
    /\ sum_exit' = "0"
    /\ sum_out' = <<"DRY RUN">>
    /\ UNCHANGED << scan_json, called, runs, ollama >>

\* lines 187-189
SumDryRun ==
    /\ UNCHANGED << apply_vars, files, rt_vars, aux_vars, folded >>
    /\ spc = "loop"
    /\ sum_i > Len(files_to_process)
    /\ dry_run
    /\ spc' = "idle"
    /\ killed_generated' = {}
    /\ DropSumLocals
    /\ sum_exit' = "0"
    /\ sum_out' = <<"DRY RUN">>
    /\ UNCHANGED << scan_json, pending_summaries, called, runs, ollama >>

\* lines 191-198: the only write of the pending file
SumSave ==
    /\ UNCHANGED << apply_vars, files, rt_vars, aux_vars, folded >>
    /\ spc = "loop"
    /\ sum_i > Len(files_to_process)
    /\ ~dry_run
    /\ pending_summaries' = [exists |-> TRUE, valid |-> TRUE,
                             summaries |-> summaries]
    /\ spc' = "idle"
    /\ killed_generated' = {}
    /\ DropSumLocals
    /\ sum_exit' = "0"
    /\ sum_out' = <<"Generated">>
    /\ UNCHANGED << scan_json, called, runs, ollama >>

\* the process is killed in the loop: its summaries were in memory only
SumKilled ==
    /\ UNCHANGED << apply_vars, files, rt_vars, aux_vars, folded >>
    /\ spc = "loop"
    /\ killed_generated' = PathsOf(summaries) \ already_done
    /\ called' = {}
    /\ spc' = "idle"
    /\ DropSumLocals
    /\ sum_exit' = "killed"
    /\ UNCHANGED << scan_json, pending_summaries, runs, ollama, sum_out >>

\* the process is killed while write_text has truncated the pending file
SumKilledWriting ==
    /\ UNCHANGED << apply_vars, files, rt_vars, aux_vars, folded >>
    /\ spc = "loop"
    /\ sum_i > Len(files_to_process)
    /\ ~dry_run
    /\ pending_summaries' = [exists |-> TRUE, valid |-> FALSE,
                             summaries |-> <<>>]
    /\ killed_generated' = PathsOf(summaries) \ already_done
    /\ called' = {}
    /\ spc' = "idle"
    /\ DropSumLocals
    /\ sum_exit' = "killed"
    /\ UNCHANGED << scan_json, runs, ollama, sum_out >>

\* a later Scan leaves another Change Report
Scan ==
    /\ UNCHANGED << apply_vars, files, rt_vars, aux_vars >>
    /\ folded' = {}
    /\ spc = "idle"
    /\ runs < MaxRuns
    /\ \E r \in ChangeReports : scan_json' = [exists |-> TRUE, files |-> r]
    /\ scan_json' # scan_json
    /\ killed_generated' = {}
    /\ UNCHANGED << pending_summaries, spc, dry_run, summaries, already_done,
                    files_to_process, sum_i, called, runs, ollama, sum_exit,
                    sum_out >>

\* Review promotes the pending summaries and Apply folds them into the
\* Ledger.  dms_apply.py unlinks .dms_pending.json only (line 323): the
\* Change Report stays where it is.  The review tool either leaves
\* .dms_pending_summaries.json in place or removes it.
ReviewAndApply ==
    /\ UNCHANGED << apply_vars, files, rt_vars, aux_vars >>
    /\ spc = "idle"
    /\ pending_summaries.exists
    /\ pending_summaries.valid
    /\ pending_summaries.summaries # <<>>
    /\ folded' = folded \cup PathsOf(pending_summaries.summaries)
    /\ \E kept \in BOOLEAN :
          pending_summaries' = IF kept THEN pending_summaries
                               ELSE NoPendingSummaries
    /\ UNCHANGED << scan_json, spc, dry_run, summaries, already_done,
                    files_to_process, sum_i, called, killed_generated, runs,
                    ollama, sum_exit, sum_out >>

NextSummarize ==
    \/ ReviewAndApply
    \/ SumStart
    \/ SumFileNotFound
    \/ SumFileSummarized
    \/ SumFileFailed
    \/ SumDryRun
    \/ SumSave
    \/ SumKilled
    \/ SumKilledWriting
    \/ Scan

SpecSummarize == InitSummarize /\ [][NextSummarize]_vars

(***************************************************************************)
(* Properties of dms_summarize.py                                          *)
(***************************************************************************)
\* C7 - Resumability of Summarize: when a run was killed after it had
\* generated summaries for some paths, the next run over the same Change
\* Report starts from those paths as already done and never calls the
\* backend for one of them.
C7_ResumeAfterKill ==
    /\ \A p \in killed_generated : p \notin called
    /\ spc = "loop" => killed_generated \subseteq already_done

\* C8 - the Pending Summary Set on disk holds at most one entry per path.
C8_OneEntryPerPath ==
    pending_summaries.exists =>
        \A i, j \in 1..Len(pending_summaries.summaries) :
            pending_summaries.summaries[i].file.path
              = pending_summaries.summaries[j].file.path => i = j

\* a finished re-run that found entries of an earlier run on disk, asked the
\* backend for other paths only, and left two or more entries
C8_Witness ==
    /\ spc = "idle"
    /\ pending_summaries.exists
    /\ Len(pending_summaries.summaries) >= 2
    /\ called # {}
    /\ \E i \in 1..Len(pending_summaries.summaries) :
          pending_summaries.summaries[i].file.path \notin called

(***************************************************************************)
(* The Ledger round trip: update_dms_state, then extract_dms_state.        *)
(***************************************************************************)
RoundTripChars == {"a", "#", "-->", "\\", "\"", "\n"}

\* the strings of at most MaxStrLen characters
Strings ==
    UNION { [1..n -> RoundTripChars] : n \in 0..MaxStrLen }

LedgerEntry(description) ==
    [path |-> "a.txt", hash |-> compute_file_hash("bytes1"),
     last_processed |-> TimeStr(0), title |-> Stem("a.txt"),
     description |-> description]

Ledgers ==
    { [processed_files |-> pf, categories |-> cats, last_scan |-> ls] :
        pf \in {<<>>} \cup { <<LedgerEntry(d)>> : d \in Strings },
        cats \in { <<>>, <<guides, <<"#", "\\">>>> },
        ls \in {"None", TimeStr(0)} }

RoundTripDocuments ==
    { Document(b, s, TRUE, SecGuides(<<Li("a.txt")>>)) :
        b \in {"body", "body_attr", "none"},
        s \in {"valid", "malformed", "none"} }

InitRoundTrip ==
    /\ DeleteIdle
    /\ LocatorIdle /\ MigrateIdle /\ CleanupIdle /\ OcrIdle
    /\ index_html \in RoundTripDocuments
    /\ backups = [t \in 0..MaxClock |-> <<>>]
    /\ now = 0
    /\ pending = [exists |-> FALSE, approved_summaries |-> <<>>]
    /\ pc = "idle"
    /\ NoLocals
    /\ out = <<>>
    /\ pre_index = <<>>
    /\ applies = 0
    /\ staged = <<>>
    /\ applied = <<>>
    /\ n_backups = 0
    /\ n_writes = 0
    /\ files = [p \in Paths |-> "bytes1"]
    /\ SummarizeIdle
    /\ ledger \in Ledgers
    /\ extracted = DefaultState
    /\ rpc = "idle"

\* index_path.write_text(update_dms_state(index_path, ledger))
Embed ==
    /\ rpc = "idle"
    /\ index_html' = update_dms_state(index_html, ledger)
    /\ rpc' = "embedded"
    /\ UNCHANGED << backups, now, pending, pc, content, state, insertions,
                    new_categories_html, approved_summaries, out, pre_index,
                    applies, staged, applied, n_backups, n_writes, files, sum_vars, ledger,
                    extracted, aux_vars >>

\* extract_dms_state(index_path)
Extract ==
    /\ rpc = "embedded"
    /\ extracted' = extract_dms_state(index_html)
    /\ rpc' = "extracted"
    /\ UNCHANGED << apply_vars, files, sum_vars, ledger, aux_vars >>

NextRoundTrip ==
    \/ Embed
    \/ Extract

SpecRoundTrip == InitRoundTrip /\ [][NextRoundTrip]_vars

\* C6 - Ledger round trip: whatever the Ledger and the document, what
\* extract_dms_state reads after update_dms_state embedded the Ledger is
\* that Ledger.
C6_RoundTrip == rpc = "extracted" => extracted = ledger

(***************************************************************************)
(* Properties of dms_apply.py.  "written" is the state right after         *)
(* index_path.write_text: pre_index is the document the Apply found,       *)
(* index_html the one it wrote, approved_summaries what it applied.        *)
(***************************************************************************)
Uls(doc) == { i \in 1..Len(doc) : doc[i].k = "ul" }

\* the n-th entry list of the document
UlAt(doc, n) ==
    CHOOSE u \in Uls(doc) : Cardinality({ v \in Uls(doc) : v <= u }) = n

\* the paths of the entry blocks of the n-th list, in order
SectionPaths(doc, n) ==
    EntryPaths(SubSeq(doc, UlAt(doc, n) + 1,
                      FirstKind(doc, UlAt(doc, n) + 1, {"ul_close"}) - 1))

\* the paths of the approved entries that resolve to the n-th list of doc
ResolvedTo(doc, n, items) ==
    SelectSeq([i \in 1..Len(items) |-> items[i].path],
              LAMBDA q : \E i \in 1..Len(items) :
                  /\ items[i].path = q
                  /\ find_category_section(doc, items[i].category) # <<>>
                  /\ find_category_section(doc, items[i].category)[1]
                       = UlAt(doc, n))

\* how many entry blocks of doc carry path q
EntryCount(doc, q) ==
    Cardinality({ i \in 1..Len(doc) : doc[i] = Li(q) })

\* the sections of doc declared for category
SectionsFor(doc, category) ==
    { i \in 1..Len(doc) :
        doc[i].k = "section" /\ doc[i].v = HtmlEscape(category) }

\* the paths the Ledger embedded in doc records as processed
Recorded(doc) ==
    { extract_dms_state(doc).processed_files[i].path :
        i \in 1..Len(extract_dms_state(doc).processed_files) }

\* C1 - Offset-safety of Apply: in the document written to disk every
\* section that was there holds its K original entries, unchanged and in
\* order, followed by the J approved entries that resolve to it, and
\* nothing else.
C1_OffsetSafety ==
    pc = "written" =>
        /\ Cardinality(Uls(index_html)) >= Cardinality(Uls(pre_index))
        /\ \A n \in 1..Cardinality(Uls(pre_index)) :
              /\ Len(SectionPaths(index_html, n))
                   = Len(SectionPaths(pre_index, n))
                     + Len(ResolvedTo(pre_index, n, approved_summaries))
              /\ SubSeq(SectionPaths(index_html, n), 1,
                        Len(SectionPaths(pre_index, n)))
                   = SectionPaths(pre_index, n)
              /\ Range(SubSeq(SectionPaths(index_html, n),
                              Len(SectionPaths(pre_index, n)) + 1,
                              Len(SectionPaths(index_html, n))))
                   = Range(ResolvedTo(pre_index, n, approved_summaries))

\* C2 - New-category creation: when the document has the container anchor,
\* each approved category that was not found has exactly one new section in
\* the written document, holding one entry per approved entry of it, and
\* the Ledger's categories hold the new label and every earlier one.
C2_NewCategorySection ==
    (pc = "written" /\ ListsClose(pre_index) # -1) =>
        \A i \in 1..Len(approved_summaries) :
            find_category_section(pre_index, approved_summaries[i].category)
              = <<>> =>
                /\ Cardinality(SectionsFor(index_html,
                                           approved_summaries[i].category))
                     = Cardinality(SectionsFor(pre_index,
                                               approved_summaries[i].category))
                       + 1
                /\ EntryCount(index_html, approved_summaries[i].path)
                     = EntryCount(pre_index, approved_summaries[i].path) + 1
                /\ Range(extract_dms_state(pre_index).categories)
                     \cup {approved_summaries[i].category}
                     \subseteq Range(state.categories)

\* C3 - Backup-before-write: the document on disk changes only in the step
\* that follows the backup, when the backup of this second holds the
\* document as it is on disk, which is the document this Apply found.
C3_BackupBeforeWrite ==
    [][index_html' # index_html =>
          /\ pc = "backed_up"
          /\ backups[now] = index_html
          /\ index_html = pre_index]_vars

\* an Apply has rewritten the document and its backup holds the old one
C3_Witness ==
    /\ pc = "written"
    /\ index_html # pre_index
    /\ backups[now] = pre_index

\* C4 - No silent data loss: after the write, every approved entry whose
\* path the Ledger on disk records as processed has an entry block with
\* that path in the document on disk.
C4_NoSilentLoss ==
    pc = "written" =>
        \A i \in 1..Len(approved_summaries) :
            approved_summaries[i].path \in Recorded(index_html) =>
                EntryCount(index_html, approved_summaries[i].path) >= 1

\* C5 - Idempotence of Apply: in the second Apply of the same approved set,
\* a path the Ledger already records with the hash the file has now is
\* detected: no entry block for it is among the insertions or the new
\* sections the Apply builds.
C5_SecondApplyDetects ==
    (pc = "computed" /\ applied = approved_summaries) =>
        \A i \in 1..Len(approved_summaries) :
            (\E k \in 1..Len(extract_dms_state(pre_index).processed_files) :
                 /\ extract_dms_state(pre_index).processed_files[k].path
                      = approved_summaries[i].path
                 /\ extract_dms_state(pre_index).processed_files[k].hash
                      = compute_file_hash(files[approved_summaries[i].path]))
            => /\ \A j \in 1..Len(insertions) :
                    Li(approved_summaries[i].path)
                      \notin Range(insertions[j].html)
               /\ \A j \in 1..Len(new_categories_html) :
                    Li(approved_summaries[i].path)
                      \notin Range(new_categories_html[j])

\* a message about category other than the two progress lines of the loop
Reported(category) ==
    \E i \in 1..Len(out) :
        /\ out[i].category = category
        /\ out[i].msg \notin {"Found existing category section",
                              "Category not found, will create new section"}

\* C9 - Partial success: without the container anchor, the entries of a
\* category that needs a new section are left out and the skip is reported
\* with the category; the entries of a located category are in the written
\* document.
C9_PartialSuccess ==
    (pc = "written" /\ ListsClose(pre_index) = -1) =>
        \A i \in 1..Len(approved_summaries) :
            IF find_category_section(pre_index,
                                     approved_summaries[i].category) = <<>>
            THEN /\ EntryCount(index_html, approved_summaries[i].path)
                      = EntryCount(pre_index, approved_summaries[i].path)
                 /\ Reported(approved_summaries[i].category)
            ELSE EntryCount(index_html, approved_summaries[i].path)
                   = EntryCount(pre_index, approved_summaries[i].path) + 1

\* the snapshot blocks of doc
Snapshots(doc) ==
    { i \in 1..Len(doc) :
        doc[i].k = "state_open" /\ FirstClose(doc, i + 1) # 0 }

\* C10 - after the write the document holds exactly one snapshot block, and
\* it serializes the Ledger this Apply updated.
C10_OneSnapshot ==
    pc = "written" =>
        /\ Cardinality(Snapshots(index_html)) = 1
        /\ extract_dms_state(index_html) = state

(***************************************************************************)
(* dms_migrate_to_json.py                                                  *)
(***************************************************************************)
\* categories[category] = files, on a dict kept as the sequence of its items
CategoriesSet(categories, category, paths) ==
    IF \E i \in 1..Len(categories) : categories[i].category = category
    THEN [i \in 1..Len(categories) |->
             IF categories[i].category = category
             THEN [category |-> category, files |-> paths]
             ELSE categories[i]]
    ELSE Append(categories, [category |-> category, files |-> paths])

\* _extract_categories_from_html: re.finditer from offset pos.  A match runs
\* from a <section ... data-category="..."> with a non-empty attribute to
\* the first </section> after it.
RECURSIVE ExtractCategories(_, _, _)
ExtractCategories(doc, pos, categories) ==
    LET s == FirstTagged(doc, pos + 1, "section")
        e == IF s = 0 THEN 0 ELSE FirstKind(doc, s + 1, {"section_close"})
    IN IF e = 0 THEN categories
       ELSE ExtractCategories(doc, e,
                CategoriesSet(categories, doc[s].v,
                              EntryPaths(SubSeq(doc, s, e))))

extract_categories_from_html(doc) == ExtractCategories(doc, 0, <<>>)

Junk == <<"Junk">>

\* lines 75-79: the category of the first item that lists file_path
CategoryOfPath(categories_from_html, file_path) ==
    IF \E i \in 1..Len(categories_from_html) :
           file_path \in Range(categories_from_html[i].files)
    THEN categories_from_html[
             MinOr0({ i \in 1..Len(categories_from_html) :
                        file_path \in Range(categories_from_html[i].files) })
         ].category
    ELSE Junk

\* lines 60-88: new_state from old_state and the sections of the document
MigratedState(old_state, categories_from_html, t) ==
    [metadata |-> [last_scan |-> old_state.last_scan,
                   last_apply |-> TimeStr(t),
                   migrated_from_embedded |-> TRUE,
                   migration_date |-> TimeStr(t)],
     categories |->
         IF categories_from_html # <<>>
         THEN [i \in 1..Len(categories_from_html) |->
                  categories_from_html[i].category]
         ELSE old_state.categories,
     documents |->
         [i \in 1..Len(old_state.processed_files) |->
             [path |-> old_state.processed_files[i].path,
              hash |-> old_state.processed_files[i].hash,
              category |-> CategoryOfPath(categories_from_html,
                                          old_state.processed_files[i].path),
              summary |-> old_state.processed_files[i].description,
              title |-> old_state.processed_files[i].title,
              last_processed |-> old_state.processed_files[i].last_processed]]]

\* the Ledger an earlier Apply embedded: these paths, these categories
LedgerWith(paths, cats) ==
    [processed_files |->
         [i \in 1..Len(paths) |-> [path |-> paths[i], hash |-> "sha256:1",
                                   last_processed |-> TimeStr(0),
                                   title |-> Stem(paths[i]),
                                   description |-> <<"x">>]],
     categories |-> cats,
     last_scan |-> TimeStr(0)]

MigrationSections ==
    { <<>>,
      SecGuides(<<Li("a.txt")>>),
      SecScripts(<<Li("b.txt")>>),
      SecGuides(<<Li("a.txt")>>) \o SecScripts(<<Li("b.txt")>>),
      SecGuides(<<Li("a.txt"), Li("b.txt")>>)
        \o <<Tok("section", Scripts), Tok("h2", Scripts), T("ul"),
             Li("c.txt"), T("ul_close"), T("section_close")>> }

MigrationSnapshots ==
    { new_state_block(LedgerWith(paths, cats)) :
        paths \in { <<>>, <<"a.txt">>, <<"b.txt">>, <<"c.txt">>,
                    <<"a.txt", "b.txt">>, <<"b.txt", "c.txt">>,
                    <<"a.txt", "b.txt", "c.txt">> },
        cats \in { <<>>, <<guides>>, <<Scripts, guides>> } }
    \cup { Snapshot("malformed", <<>>), Snapshot("none", <<>>) }

MigrationDocuments ==
    { <<T("text"), T("body")>> \o snap \o <<T("text")>> \o secs
        \o <<T("div_close"), T("aside_close")>> :
        snap \in MigrationSnapshots, secs \in MigrationSections }

InitMigrate ==
    /\ DeleteIdle
    /\ index_html \in MigrationDocuments
    /\ backups = [t \in 0..MaxClock |-> <<>>]
    /\ now \in 0..MaxClock
    /\ pending = [exists |-> FALSE, approved_summaries |-> <<>>]
    /\ pc = "idle"
    /\ NoLocals
    /\ out = <<>>
    /\ pre_index = <<>>
    /\ applies = 0
    /\ staged = <<>>
    /\ applied = <<>>
    /\ n_backups = 0
    /\ n_writes = 0
    /\ files = [p \in Paths |-> "bytes1"]
    /\ SummarizeIdle
    /\ RoundTripIdle
    /\ LocatorIdle /\ MigrateIdle /\ CleanupIdle /\ OcrIdle

\* migrate(): no snapshot ends it with status 1, a snapshot that is no JSON
\* raises in json.loads; else .dms_state.json is written.
Migrate ==
    /\ UNCHANGED del_vars
    /\ UNCHANGED << apply_vars, files, sum_vars, rt_vars, loc_vars,
                    clean_vars, ocr_vars >>
    /\ mig_exit = "none"
    /\ IF StateMatch(index_html, 0) = <<>>
       THEN /\ mig_exit' = "1"
            /\ UNCHANGED state_json
       ELSE IF ~json_loads(GroupText(SubSeq(index_html,
                      StateMatch(index_html, 0)[1] + 1,
                      StateMatch(index_html, 0)[2] - 1))).ok
       THEN /\ mig_exit' = "traceback"
            /\ UNCHANGED state_json
       ELSE /\ mig_exit' = "0"
            /\ state_json' =
                 [exists |-> TRUE, valid |-> TRUE,
                  state |-> MigratedState(
                      extract_dms_state(index_html),
                      extract_categories_from_html(index_html), now)]

NextMigrate ==
    \/ Migrate

SpecMigrate == InitMigrate /\ [][NextMigrate]_vars

\* C11 - Ledger category invariant: in the Ledger that Migration persists,
\* the category of every Document Entry is in the categories list.
C11_CategoriesCoverEntries ==
    mig_exit = "0" =>
        \A i \in 1..Len(state_json.state.documents) :
            state_json.state.documents[i].category
              \in Range(state_json.state.categories)

\* C12 - categories in sync with the document: every label that the Ledger
\* in the written document holds and the Ledger before this Apply did not,
\* has a category section in the written document.
C12_CategoriesInSync ==
    pc = "written" =>
        \A c \in Range(extract_dms_state(index_html).categories)
                   \ Range(extract_dms_state(pre_index).categories) :
            SectionsFor(index_html, c) # {}

(***************************************************************************)
(* The Section Locator on its own.                                         *)
(***************************************************************************)
\* a section as the renderer and create_category_section write it: the
\* opening tag, the heading, the list with its entries
Section(data_category, heading, entries) ==
    <<IF data_category = <<>> THEN T("section_nocat")
      ELSE Tok("section", data_category),
      Tok("h2", heading), T("ul")>>
    \o entries \o <<T("ul_close"), T("section_close")>>

LocatorSections ==
    { Section(<<"g">>, <<"x">>, <<Li("a.txt")>>),
      Section(<<"G">>, <<"G">>, <<>>),
      Section(<<>>, <<"G">>, <<Li("b.txt")>>),
      Section(<<>>, <<"n", " ", "S">>, <<>>),
      Section(<<>>, <<"S", " ", "x", " ", "y">>, <<Li("c.txt")>>),
      Section(<<"s">>, <<"S">>, <<>>) }

LocatorDocuments ==
    { <<T("text"), T("body")>> \o a \o <<T("div_close"), T("aside_close")>> :
        a \in LocatorSections }
    \cup { <<T("text"), T("body")>> \o ab[1] \o ab[2]
             \o <<T("div_close"), T("aside_close")>> :
             ab \in { x \in LocatorSections \X LocatorSections :
                        x[1] # x[2] } }
    \cup { <<T("text"), T("body")>> \o abc[1] \o abc[2] \o abc[3]
             \o <<T("div_close"), T("aside_close")>> :
             abc \in { x \in LocatorSections \X LocatorSections
                               \X LocatorSections :
                         x[1] # x[2] /\ x[1] # x[3] /\ x[2] # x[3] } }

LocatorLabels ==
    { <<"G">>, <<" ", "g">>, <<"S">>, <<"S", " ", "x">>, <<"S", " ", "q">>,
      <<"n">>, <<"q">> }

InitLocator ==
    /\ DeleteIdle
    /\ index_html \in LocatorDocuments
    /\ backups = [t \in 0..MaxClock |-> <<>>]
    /\ now = 0
    /\ pending = [exists |-> FALSE, approved_summaries |-> <<>>]
    /\ pc = "idle"
    /\ NoLocals
    /\ out = <<>>
    /\ pre_index = <<>>
    /\ applies = 0
    /\ staged = <<>>
    /\ applied = <<>>
    /\ n_backups = 0
    /\ n_writes = 0
    /\ files = [p \in Paths |-> "bytes1"]
    /\ SummarizeIdle
    /\ RoundTripIdle
    /\ MigrateIdle /\ CleanupIdle /\ OcrIdle
    /\ loc_category \in LocatorLabels
    /\ loc_result = <<>>
    /\ lpc = "idle"

\* cat_position = find_category_section(content, category)
Locate ==
    /\ UNCHANGED del_vars
    /\ UNCHANGED << apply_vars, files, sum_vars, rt_vars, mig_vars,
                    clean_vars, ocr_vars, loc_category >>
    /\ lpc = "idle"
    /\ loc_result' = find_category_section(index_html, loc_category)
    /\ lpc' = "found"

NextLocator ==
    \/ Locate

SpecLocator == InitLocator /\ [][NextLocator]_vars

\* the sections of a document, by the index of their opening tag; the
\* heading follows the tag and the list follows the heading
SectionStarts(doc) ==
    { i \in 1..Len(doc) : doc[i].k \in {"section", "section_nocat"} }

ListOf(doc, i) == <<i + 2, FirstKind(doc, i + 3, {"ul_close"}) - 1>>

KeyEquals(doc, i, label) ==
    /\ doc[i].k = "section"
    /\ Lower(Strip(doc[i].v)) = Lower(Strip(label))

HeadingContains(doc, i, label) ==
    \/ Contains(Lower(Strip(doc[i + 1].v)), Lower(Strip(label)))
    \/ Contains(Lower(Strip(label)), Lower(Strip(doc[i + 1].v)))

SharesWord(doc, i, label) ==
    Words(Lower(Strip(label))) \cap Words(Lower(Strip(doc[i + 1].v))) # {}

RECURSIVE LStrip(_)
LStrip(file_path) ==
    IF file_path # <<>> /\ Head(file_path) \in {".", "/"}
    THEN LStrip(Tail(file_path))
    ELSE file_path

\* the file a path names under the document root: a leading "./"
\* component names the root itself
RECURSIVE Resolve(_)
Resolve(file_path) ==
    IF Len(file_path) >= 2 /\ SubSeq(file_path, 1, 2) = <<".", "/">>
    THEN Resolve(SubSeq(file_path, 3, Len(file_path)))
    ELSE file_path

\* full_path.exists()
Exists(fs, full_path) ==
    full_path \in DOMAIN fs /\ fs[full_path] # "missing"

\* the files the document root can hold: a, h and the dot file .h
CleanupFiles == { <<"a">>, <<"h">>, <<".", "h">> }

\* the keys a Ledger can hold: ./a, a, ./h, ./.h
CleanupKeys == << <<".", "/", "a">>, <<"a">>, <<".", "/", "h">>,
                  <<".", "/", ".", "h">> >>

CleanupLedgers ==
    { [categories |-> <<guides>>,
       documents |-> [i \in 1..Len(ks) |->
                         [path |-> ks[i], category |-> guides]]] :
        ks \in { SelectSeq(CleanupKeys, LAMBDA k : k \in K) :
                   K \in SUBSET Range(CleanupKeys) } }

StateFiles ==
    { NoStateFile, [exists |-> TRUE, valid |-> FALSE, state |-> <<>>] }
    \cup { [exists |-> TRUE, valid |-> TRUE, state |-> l] :
             l \in CleanupLedgers }

\* [p for p in state['documents'] if not (doc_dir / p.lstrip('./')).exists()]
MissingFiles(fs, ledger_state) ==
    LET ds == ledger_state.documents
        gone == SelectSeq(ds, LAMBDA d : ~Exists(fs, LStrip(d.path)))
    IN [i \in 1..Len(gone) |-> gone[i].path]

\* del state['documents'][file_path] for each missing file
DeleteMissing(ledger_state, missing) ==
    [ledger_state EXCEPT
        !.documents = SelectSeq(@, LAMBDA d : d.path \notin Range(missing))]

\* the document dms_render.py writes from the Ledger file: one section for
\* each category, holding the entries of its documents
RECURSIVE RenderSections(_, _)
RenderSections(ledger_state, cats) ==
    IF cats = <<>> THEN <<>>
    ELSE LET mine == SelectSeq(ledger_state.documents,
                               LAMBDA d : d.category = Head(cats))
         IN <<Tok("section", Head(cats)), Tok("h2", Head(cats)), T("ul")>>
            \o [i \in 1..Len(mine) |-> Tok("li", mine[i].path)]
            \o <<T("ul_close"), T("section_close")>>
            \o RenderSections(ledger_state, Tail(cats))

Render(ledger_state) ==
    <<T("text"), T("body")>>
    \o RenderSections(ledger_state, ledger_state.categories)
    \o <<T("div_close"), T("aside_close")>>

InitCleanup ==
    /\ DeleteIdle
    /\ state_json \in StateFiles
    /\ index_html =
         IF state_json.valid THEN Render(state_json.state)
         ELSE <<T("text"), T("body"), T("div_close"), T("aside_close")>>
    /\ files \in [CleanupFiles -> {"bytes1", "missing"}]
    /\ backups = [t \in 0..MaxClock |-> <<>>]
    /\ now = 0
    /\ pending = [exists |-> FALSE, approved_summaries |-> <<>>]
    /\ pc = "idle"
    /\ NoLocals
    /\ out = <<>>
    /\ pre_index = <<>>
    /\ applies = 0
    /\ staged = <<>>
    /\ applied = <<>>
    /\ n_backups = 0
    /\ n_writes = 0
    /\ SummarizeIdle
    /\ RoundTripIdle
    /\ LocatorIdle
    /\ mig_exit = "none"
    /\ CleanupIdle
    /\ OcrIdle

\* main, lines 28-51: load the Ledger, find the missing files, drop them
CleanupLoad ==
    /\ UNCHANGED del_vars
    /\ UNCHANGED << apply_vars, files, sum_vars, rt_vars, loc_vars, mig_vars,
                    ocr_vars, renders >>
    /\ cpc = "idle"
    /\ IF ~state_json.exists
       THEN /\ cpc' = "done"
            /\ clean_exit' = "0"
            /\ UNCHANGED << clean_state, missing_files >>
       ELSE IF ~state_json.valid
       THEN /\ cpc' = "done"
            /\ clean_exit' = "traceback"
            /\ UNCHANGED << clean_state, missing_files >>
       ELSE /\ missing_files' = MissingFiles(files, state_json.state)
            /\ IF missing_files' = <<>>
               THEN /\ cpc' = "done"
                    /\ clean_exit' = "0"
                    /\ UNCHANGED clean_state
               ELSE /\ cpc' = "loaded"
                    /\ clean_state' =
                         DeleteMissing(state_json.state, missing_files')
                    /\ UNCHANGED clean_exit

\* state_path.write_text(json.dumps(state, indent=2))
CleanupSave ==
    /\ UNCHANGED del_vars
    /\ UNCHANGED << apply_vars, files, sum_vars, rt_vars, loc_vars, mig_exit,
                    ocr_vars, clean_exit, missing_files,
                    clean_state, renders >>
    /\ cpc = "loaded"
    /\ state_json' = [exists |-> TRUE, valid |-> TRUE, state |-> clean_state]
    /\ cpc' = "saved"

\* subprocess.run([sys.executable, render_script, ...]) and its return code
CleanupRender ==
    /\ UNCHANGED del_vars
    /\ UNCHANGED << backups, now, files, pending, pc, content, state,
                    insertions, new_categories_html, approved_summaries, out,
                    pre_index, applies, staged, applied, n_backups, n_writes, sum_vars, rt_vars,
                    loc_vars, mig_vars, ocr_vars, clean_state, missing_files >>
    /\ cpc = "saved"
    /\ renders' = renders + 1
    /\ cpc' = "done"
    /\ \E returncode \in {0, 1} :
          IF returncode = 0
          THEN /\ index_html' = Render(state_json.state)
               /\ clean_exit' = "0"
          ELSE /\ UNCHANGED index_html
               /\ clean_exit' = "1"

NextCleanup ==
    \/ CleanupLoad
    \/ CleanupSave
    \/ CleanupRender

SpecCleanup == InitCleanup /\ [][NextCleanup]_vars

\* C15 - cleanup removes exactly the missing: when a run that found
\* something to remove is over, every path it removed names a file that
\* does not exist under the document root and every entry it kept names
\* one that does, dot-first paths included.
C15_RemovesExactlyMissing ==
    (cpc = "done" /\ renders = 1) =>
        /\ \A i \in 1..Len(missing_files) :
              ~Exists(files, Resolve(missing_files[i]))
        /\ \A i \in 1..Len(state_json.state.documents) :
              Exists(files, Resolve(state_json.state.documents[i].path))

\* C16 - malformed persisted state: a cleanup run that finds a Ledger file
\* it cannot parse goes on with the empty default and ends normally; it
\* does not abort.
C16_MalformedContinues ==
    (cpc = "done" /\ state_json.exists /\ ~state_json.valid) =>
        clean_exit = "0"

\* C17 - summarizer unreachable: a run whose availability check got no
\* connection, a bad status or a model list without the model ends at once
\* with exit status 1 and the diagnostic, has asked the backend for no
\* file, and leaves the pending summaries, the Change Report, the Ledger
\* file and the document as they were.
C17_UnreachableLeavesAll ==
    [][(spc = "idle" /\ runs' = runs + 1 /\ ollama' # "ok") =>
          /\ sum_exit' = "1"
          /\ sum_out' = CannotConnect
          /\ called' = {}
          /\ spc' = "idle"
          /\ UNCHANGED << pending_summaries, scan_json, index_html,
                          state_json >>]_vars

\* a run failed its check with files to summarize in the Change Report and
\* the summaries of an earlier run pending
C17_Witness ==
    /\ spc = "idle"
    /\ ollama \in {"unreachable", "status500", "no_model"}
    /\ sum_exit = "1"
    /\ scan_json.exists /\ scan_json.files # <<>>
    /\ pending_summaries.exists /\ pending_summaries.summaries # <<>>

(***************************************************************************)
(* dms_image_to_text.py: OCR of the images of the Change Report.           *)
(***************************************************************************)
Images == {"p.png", "q.png", "r.png"}

\* new_images + changed_images: up to three images, each once
ImageLists ==
    { <<>> } \cup { <<a>> : a \in Images }
    \cup { x \in Images \X Images : x[1] # x[2] }
    \cup { x \in Images \X Images \X Images :
             x[1] # x[2] /\ x[1] # x[3] /\ x[2] # x[3] }

InitOcr ==
    /\ DeleteIdle
    /\ ApplyIdle
    /\ SummarizeIdle
    /\ RoundTripIdle
    /\ LocatorIdle /\ MigrateIdle /\ CleanupIdle
    /\ files \in [Images -> {"bytes1", "missing"}]
    /\ tesseract \in BOOLEAN
    /\ all_images \in ImageLists
    /\ opc = "idle"
    /\ ocr_i = 0
    /\ converted = 0
    /\ ocr_out = <<>>
    /\ ocr_exit = "none"

\* main, lines 96-104
OcrStart ==
    /\ UNCHANGED del_vars
    /\ UNCHANGED << apply_vars, files, sum_vars, rt_vars, loc_vars, mig_vars,
                    clean_vars, tesseract, all_images, converted >>
    /\ opc = "idle"
    /\ IF all_images = <<>>
       THEN /\ ocr_out' = <<[msg |-> "No images found", image |-> ""]>>
            /\ ocr_exit' = "0"
            /\ opc' = "done"
            /\ UNCHANGED ocr_i
       ELSE /\ ocr_i' = 1
            /\ opc' = "loop"
            /\ UNCHANGED << ocr_out, ocr_exit >>

\* convert_image_to_text, lines 41-45: the image is gone
OcrImageNotFound ==
    /\ UNCHANGED del_vars
    /\ UNCHANGED << apply_vars, files, sum_vars, rt_vars, loc_vars, mig_vars,
                    clean_vars, tesseract, all_images, converted, opc,
                    ocr_exit >>
    /\ opc = "loop"
    /\ ocr_i <= Len(all_images)
    /\ files[all_images[ocr_i]] = "missing"
    /\ ocr_out' = Append(ocr_out, [msg |-> "Image not found",
                                   image |-> all_images[ocr_i]])
    /\ ocr_i' = ocr_i + 1

\* lines 52-54, 65-67: subprocess.run raises FileNotFoundError
OcrNotInstalled ==
    /\ UNCHANGED del_vars
    /\ UNCHANGED << apply_vars, files, sum_vars, rt_vars, loc_vars, mig_vars,
                    clean_vars, tesseract, all_images, converted, opc,
                    ocr_exit >>
    /\ opc = "loop"
    /\ ocr_i <= Len(all_images)
    /\ files[all_images[ocr_i]] # "missing"
    /\ ~tesseract
    /\ ocr_out' = Append(ocr_out,
                         [msg |-> "tesseract not installed, skipping",
                          image |-> all_images[ocr_i]])
    /\ ocr_i' = ocr_i + 1

\* lines 52-64 and 106-107: tesseract ran; it wrote the text or it did not
OcrRan ==
    /\ UNCHANGED del_vars
    /\ UNCHANGED << apply_vars, files, sum_vars, rt_vars, loc_vars, mig_vars,
                    clean_vars, tesseract, all_images, opc, ocr_exit >>
    /\ opc = "loop"
    /\ ocr_i <= Len(all_images)
    /\ files[all_images[ocr_i]] # "missing"
    /\ tesseract
    /\ \E ok \in BOOLEAN :
          /\ converted' = IF ok THEN converted + 1 ELSE converted
          /\ ocr_out' = Append(ocr_out,
                               [msg |-> IF ok THEN "ok"
                                        ELSE "Failed to convert",
                                image |-> all_images[ocr_i]])
    /\ ocr_i' = ocr_i + 1

\* lines 109-116
OcrFinish ==
    /\ UNCHANGED del_vars
    /\ UNCHANGED << apply_vars, files, sum_vars, rt_vars, loc_vars, mig_vars,
                    clean_vars, tesseract, all_images, converted, ocr_i,
                    ocr_out >>
    /\ opc = "loop"
    /\ ocr_i > Len(all_images)
    /\ ocr_exit' = "0"
    /\ opc' = "done"

NextOcr ==
    \/ OcrStart
    \/ OcrImageNotFound
    \/ OcrNotInstalled
    \/ OcrRan
    \/ OcrFinish

SpecOcr == InitOcr /\ [][NextOcr]_vars

\* C18 - OCR binary absent: a run without tesseract that has an image to
\* convert stops at its first attempt and ends with a failure status.
C18_AbortsEarly ==
    (/\ opc = "done"
     /\ ~tesseract
     /\ \E i \in 1..Len(all_images) : files[all_images[i]] # "missing")
    => /\ ocr_exit # "0"
       /\ Cardinality({ i \in 1..Len(ocr_out) :
              ocr_out[i].msg = "tesseract not installed, skipping" }) <= 1

(***************************************************************************)
(* The side effects of one Apply invocation.                               *)
(***************************************************************************)
\* the last line the run printed
LastMsg == IF out = <<>> THEN "" ELSE out[Len(out)].msg

Succeeded == pc = "idle" /\ LastMsg = "Changes applied successfully!"

\* the run ended by itself before it reached the backup
EndedEarly ==
    /\ pc = "idle"
    /\ LastMsg \in {"ERROR: No pending report found.",
                    "No approved summaries to apply.", "KeyError"}

\* C19 as stated - every invocation that is over has taken exactly one
\* backup and rewritten the document exactly once, the invocations with
\* nothing to apply included.
C19_OneBackupOneRewrite ==
    (pc = "idle" /\ applies >= 1 /\ LastMsg # "") =>
        n_backups = 1 /\ n_writes = 1

\* C19 as the code has it - an invocation that succeeds has taken exactly
\* one backup and rewritten the document exactly once; one that finds no
\* pending file or nothing approved, or fails while it computes, has done
\* neither; no invocation rewrites more often than it has backed up, and
\* none backs up twice.
C19_BackupAndRewriteTogether ==
    /\ n_writes <= n_backups
    /\ n_backups <= 1
    /\ Succeeded => (n_backups = 1 /\ n_writes = 1)
    /\ EndedEarly => (n_backups = 0 /\ n_writes = 0)

\* an Apply has succeeded with its one backup and its one rewrite
C19_Witness ==
    /\ Succeeded
    /\ n_backups = 1
    /\ n_writes = 1
    /\ backups[now] = pre_index

\* C20 - the pending file goes exactly on success: an existing pending
\* file changes only in the step that ends a run after its rewrite, which
\* removes it; every run that ends with the success message has removed
\* it; a run that ends at once (no pending file, nothing approved, an
\* exception while computing) leaves it as it was.
C20_PendingRemovedOnSuccess ==
    [][/\ (pending.exists /\ pending' # pending) =>
              /\ pc = "written"
              /\ n_writes = 1
              /\ index_html = content
              /\ ~pending'.exists
              /\ Succeeded'
       /\ (pc # "idle" /\ Succeeded') => ~pending'.exists
       /\ (pc = "idle" /\ applies' = applies + 1 /\ pc' = "idle") =>
              pending' = pending]_vars

\* a successful Apply has removed the pending file after rewriting the
\* document
C20_Witness ==
    /\ Succeeded
    /\ ~pending.exists
    /\ applied # <<>>
    /\ n_writes = 1

(***************************************************************************)
(* Migration and the sections of the document.                             *)
(***************************************************************************)
\* the sections of the document that carry a category identifier, by the
\* index of their opening tag
TaggedSections(doc) ==
    { i \in 1..Len(doc) : doc[i].k = "section" /\ doc[i].v # <<>> }

\* the paths listed between a section's opening tag and its closing tag
PathsInSection(doc, i) ==
    Range(EntryPaths(SubSeq(doc, i,
                            FirstKind(doc, i + 1, {"section_close"}))))

\* C24 - migration derives categories from the document: in the Ledger
\* file that migrate writes, categories is the set of identifiers of the
\* sections of the document, whatever the embedded snapshot lists, and
\* every document's category is a section that holds its path.
C24_CategoriesFromDocument ==
    mig_exit = "0" =>
        /\ Range(state_json.state.categories)
             = { index_html[i].v : i \in TaggedSections(index_html) }
        /\ \A d \in Range(state_json.state.documents) :
              \E i \in TaggedSections(index_html) :
                 /\ index_html[i].v = d.category
                 /\ d.path \in PathsInSection(index_html, i)

(***************************************************************************)
(* Summarize, the Change Report and the Ledger.                            *)
(***************************************************************************)
\* C21 - a Change Report is consumed once: a Summarize run asks the
\* backend for no path whose entry Apply has folded into the Ledger since
\* the last Scan, and holds no summary for such a path to save.
C21_ConsumedOnce ==
    spc = "loop" =>
        /\ called \cap folded = {}
        /\ PathsOf(summaries) \cap folded = {}

\* a step of a Summarize run: its start, or a step of its loop
SummarizeStep == spc = "loop" \/ runs' = runs + 1

\* C26 - Summarize writes the pending file only: no step of a Summarize
\* run changes the document, the Ledger file, the Change Report or a file
\* of the document root, and no step of a dry run changes the pending
\* file.
C26_WritesPendingOnly ==
    [][SummarizeStep =>
          /\ UNCHANGED << index_html, state_json, scan_json, files >>
          /\ (spc = "idle" \/ dry_run) =>
                 pending_summaries' = pending_summaries]_vars

\* a dry run over a Change Report has ended with summaries generated and
\* the pending file of an earlier run still there
C26_Witness ==
    /\ spc = "idle"
    /\ sum_out = <<"DRY RUN">>
    /\ called # {}
    /\ pending_summaries.exists
    /\ pending_summaries.summaries # <<>>

(***************************************************************************)
(* Apply and the entries of the Ledger.                                    *)
(***************************************************************************)
\* the entries of the Ledger in the document before the Apply and in the
\* document it wrote
LedgerBefore == extract_dms_state(pre_index).processed_files
LedgerAfter == extract_dms_state(index_html).processed_files

ApprovedPaths ==
    { approved_summaries[i].path : i \in 1..Len(approved_summaries) }

\* C27 - Apply preserves unrelated Ledger entries: in the document an
\* Apply wrote, every entry the Ledger held before under a path that is
\* not approved is there with the same fields, and no path has two
\* entries.
C27_UnrelatedEntriesKept ==
    pc = "written" =>
        \A before \in {LedgerBefore}, after \in {LedgerAfter} :
           /\ \A i \in 1..Len(before) :
                 before[i].path \notin ApprovedPaths =>
                     \E k \in 1..Len(after) : after[k] = before[i]
           /\ \A j, k \in 1..Len(after) :
                 after[j].path = after[k].path => j = k

\* an Apply wrote a Ledger that holds an entry from before under a path
\* it did not approve, next to an approved one
C27_Witness ==
    /\ pc = "written"
    /\ \E i \in 1..Len(LedgerBefore) :
          LedgerBefore[i].path \notin ApprovedPaths
    /\ \E k \in 1..Len(LedgerAfter) : LedgerAfter[k].path \in ApprovedPaths

(***************************************************************************)
(* The Section Locator on documents whose sections may lack a heading or   *)
(* a list.                                                                 *)
(***************************************************************************)
\* a section with a heading and no list, and one with a list and no heading
SectionNoList(data_category, heading) ==
    <<IF data_category = <<>> THEN T("section_nocat")
      ELSE Tok("section", data_category),
      Tok("h2", heading), T("section_close")>>

SectionNoHeading(data_category, entries) ==
    <<IF data_category = <<>> THEN T("section_nocat")
      ELSE Tok("section", data_category), T("ul")>>
    \o entries \o <<T("ul_close"), T("section_close")>>

AnySections ==
    LocatorSections
    \cup { SectionNoList(<<"g">>, <<"G">>),
           SectionNoList(<<>>, <<"n">>),
           SectionNoHeading(<<"s">>, <<Li("b.txt")>>),
           SectionNoHeading(<<>>, <<>>) }

AnyDocuments ==
    { <<T("text"), T("body")>> \o a \o <<T("div_close"), T("aside_close")>> :
        a \in AnySections }
    \cup { <<T("text"), T("body")>> \o ab[1] \o ab[2]
             \o <<T("div_close"), T("aside_close")>> :
             ab \in { x \in AnySections \X AnySections : x[1] # x[2] } }

InitLocatorAny ==
    /\ DeleteIdle
    /\ index_html \in AnyDocuments
    /\ loc_category \in LocatorLabels
    /\ loc_result = <<>>
    /\ lpc = "idle"
    /\ backups = [t \in 0..MaxClock |-> <<>>]
    /\ now = 0
    /\ pending = [exists |-> FALSE, approved_summaries |-> <<>>]
    /\ pc = "idle"
    /\ NoLocals
    /\ out = <<>>
    /\ pre_index = <<>>
    /\ applies = 0
    /\ staged = <<>>
    /\ applied = <<>>
    /\ n_backups = 0
    /\ n_writes = 0
    /\ files = [p \in Paths |-> "bytes1"]
    /\ SummarizeIdle
    /\ RoundTripIdle
    /\ MigrateIdle /\ CleanupIdle /\ OcrIdle

NextLocatorAny ==
    \/ Locate

SpecLocatorAny == InitLocatorAny /\ [][NextLocatorAny]_vars

\* the section that opens at s matches the label by its key, or by a
\* heading that lies between s and the list at u
MatchesLabel(doc, s, u, label) ==
    \/ KeyEquals(doc, s, label)
    \/ \E h \in (s + 1)..(u - 1) :
          /\ doc[h].k = "h2"
          /\ \/ Contains(Lower(Strip(doc[h].v)), Lower(Strip(label)))
             \/ Contains(Lower(Strip(label)), Lower(Strip(doc[h].v)))
             \/ Words(Lower(Strip(label)))
                  \cap Words(Lower(Strip(doc[h].v))) # {}

\* C28 - the range is the interior of the matched section's list: a
\* returned (start, end) lies in the document, start is right after the
\* opening tag of a list, end is at that list's closing tag, and the
\* nearest section opening tag before start opens a section that matches
\* the label, with no other section opening tag in between.
C28_RangeInsideMatchedSection ==
    (lpc = "found" /\ loc_result # <<>>) =>
        /\ 0 <= loc_result[1]
        /\ loc_result[1] <= loc_result[2]
        /\ loc_result[2] <= Len(index_html)
        /\ index_html[loc_result[1]].k = "ul"
        /\ loc_result[2] + 1
             = FirstKind(index_html, loc_result[1] + 1, {"ul_close"})
        /\ \E s \in SectionStarts(index_html) :
              /\ s < loc_result[1]
              /\ \A j \in (s + 1)..loc_result[1] :
                    j \notin SectionStarts(index_html)
              /\ MatchesLabel(index_html, s, loc_result[1], loc_category)

(***************************************************************************)
(* A section created for a label, then looked up by the same label.        *)
(***************************************************************************)
LabelChars == {"a", "S", " ", "&", "<", ">", "\""}

RECURSIVE StringsUpTo(_)
StringsUpTo(n) ==
    IF n = 0 THEN {<<>>}
    ELSE StringsUpTo(n - 1)
         \cup { Append(s, c) : s \in { x \in StringsUpTo(n - 1) :
                                         Len(x) = n - 1 },
                               c \in LabelChars }

\* category names: not empty, no surrounding blanks
CreateLabels == { s \in StringsUpTo(MaxStrLen) : s # <<>> /\ Strip(s) = s }

CreateDocuments ==
    { d \in LocatorDocuments : Cardinality(SectionStarts(d)) = 1 }

InitCreate ==
    /\ DeleteIdle
    /\ index_html \in CreateDocuments
    /\ loc_category \in CreateLabels
    /\ loc_result = <<>>
    /\ lpc = "idle"
    /\ backups = [t \in 0..MaxClock |-> <<>>]
    /\ now = 0
    /\ pending = [exists |-> FALSE, approved_summaries |-> <<>>]
    /\ pc = "idle"
    /\ NoLocals
    /\ out = <<>>
    /\ pre_index = <<>>
    /\ applies = 0
    /\ staged = <<>>
    /\ applied = <<>>
    /\ n_backups = 0
    /\ n_writes = 0
    /\ files = [p \in Paths |-> "bytes1"]
    /\ SummarizeIdle
    /\ RoundTripIdle
    /\ MigrateIdle /\ CleanupIdle /\ OcrIdle

\* apply_changes, the else branch: the label was not found, a section is
\* created for it and inserted before the closing tags of the sidebar
CreateSection ==
    /\ UNCHANGED del_vars
    /\ UNCHANGED << backups, now, pending, pc, content, state, insertions,
                    new_categories_html, approved_summaries, out, pre_index,
                    applies, staged, applied, n_backups, n_writes, files,
                    sum_vars, rt_vars, mig_vars, clean_vars, ocr_vars,
                    loc_category, loc_result >>
    /\ lpc = "idle"
    /\ find_category_section(index_html, loc_category) = <<>>
    /\ index_html' =
         InsertNewCategories(index_html,
             <<create_category_section(loc_category, loc_category)>>)
    /\ lpc' = "created"

\* a later run looks the label up in the written document
LocateCreated ==
    /\ UNCHANGED del_vars
    /\ UNCHANGED << apply_vars, files, sum_vars, rt_vars, mig_vars,
                    clean_vars, ocr_vars, loc_category >>
    /\ lpc = "created"
    /\ loc_result' = find_category_section(index_html, loc_category)
    /\ lpc' = "found"

NextCreate ==
    \/ CreateSection
    \/ LocateCreated

SpecCreate == InitCreate /\ [][NextCreate]_vars

\* C29 - create-then-locate: after create_category_section(c) was
\* inserted into the document, find_category_section(c) returns a range,
\* and it is the list of a section whose key is the escaped label.
C29_CreatedSectionFound ==
    lpc = "found" =>
        /\ loc_result # <<>>
        /\ \E s \in SectionStarts(index_html) :
              /\ index_html[s] = Tok("section", HtmlEscape(loc_category))
              /\ loc_result = ListOf(index_html, s)

(***************************************************************************)
(* dms_delete_entry.py: delete, by-pattern and the menu.                   *)
(***************************************************************************)
\* the files of the document root and the keys the Ledger holds for them
DeleteFiles == { <<"a">>, <<"S">>, <<"a", "S">> }

DeleteKeys == << <<".", "/", "a">>, <<".", "/", "S">>,
                 <<".", "/", "a", "S">> >>

\* doc.get('summary', ''): one word for ./S, two for the others
SummaryOf(k) ==
    IF k = <<".", "/", "S">> THEN <<"x">> ELSE <<"x", " ", "y">>

DeleteLedgers ==
    { [categories |-> <<guides>>,
       documents |-> [i \in 1..Len(ks) |->
                         [path |-> ks[i], category |-> guides,
                          summary |-> SummaryOf(ks[i])]]] :
        ks \in { SelectSeq(DeleteKeys, LAMBDA k : k \in K) :
                   K \in SUBSET Range(DeleteKeys) } }

DeleteStateFiles ==
    { NoStateFile, [exists |-> TRUE, valid |-> FALSE, state |-> <<>>] }
    \cup { [exists |-> TRUE, valid |-> TRUE, state |-> l] :
             l \in DeleteLedgers }

\* args.path; args.pattern; args.words_over (0: not given)
DeletePaths ==
    { <<"a">>, <<".", "/", "a">>, <<"S">>, <<".", "/", "a", "S">>,
      <<"q">>, <<".", "a">> }

DeletePatterns == { <<"a">>, <<"s">>, <<"S">>, <<"q">> }

WordsOver == {0, 1}

\* file_path.startswith('./')
StartsWithDotSlash(file_path) ==
    Len(file_path) >= 2 /\ SubSeq(file_path, 1, 2) = <<".", "/">>

\* delete_entry, lines 67-68
NormalizePath(file_path) ==
    IF StartsWithDotSlash(file_path) THEN file_path
    ELSE <<".", "/">> \o file_path

KeysOf(ledger_state) ==
    { ledger_state.documents[i].path :
        i \in 1..Len(ledger_state.documents) }

\* del docs[file_path]
DelKey(ledger_state, key) ==
    [ledger_state EXCEPT !.documents = SelectSeq(@, LAMBDA d : d.path # key)]

\* the variant that looks the argument up as it was given
delete_entry_raw(ledger_state, file_path) ==
    IF file_path \notin KeysOf(ledger_state)
    THEN [ok |-> FALSE, state |-> ledger_state]
    ELSE [ok |-> TRUE, state |-> DelKey(ledger_state, file_path)]

\* delete_entry(state, file_path): whether it deleted, and the state after
delete_entry(ledger_state, file_path) ==
    IF NormalizePath(file_path) \notin KeysOf(ledger_state)
    THEN [ok |-> FALSE, state |-> ledger_state]
    ELSE [ok |-> TRUE,
          state |-> DelKey(ledger_state, NormalizePath(file_path))]

InitDelete ==
    /\ state_json \in DeleteStateFiles
    /\ files \in [DeleteFiles -> {"bytes1", "missing"}]
    /\ index_html = <<T("text"), T("body"), T("div_close"), T("aside_close")>>
    /\ dpc = "idle"
    /\ del_args = <<>>
    /\ del_state = <<>>
    /\ del_before = state_json
    /\ del_exit = "none"
    /\ backups = [t \in 0..MaxClock |-> <<>>]
    /\ now = 0
    /\ pending = [exists |-> FALSE, approved_summaries |-> <<>>]
    /\ pc = "idle"
    /\ NoLocals
    /\ out = <<>>
    /\ pre_index = <<>>
    /\ applies = 0
    /\ staged = <<>>
    /\ applied = <<>>
    /\ n_backups = 0
    /\ n_writes = 0
    /\ SummarizeIdle
    /\ RoundTripIdle
    /\ LocatorIdle
    /\ mig_exit = "none"
    /\ CleanupIdle
    /\ OcrIdle

DeleteFrame ==
    UNCHANGED << apply_vars, files, sum_vars, rt_vars, loc_vars, mig_exit,
                 clean_vars, ocr_vars, del_before >>

\* main, lines 337-339: load_state gave None
DeleteLoadFailed ==
    /\ DeleteFrame
    /\ dpc = "idle"
    /\ ~(state_json.exists /\ state_json.valid)
    /\ dpc' = "done"
    /\ del_exit' = "1"
    /\ UNCHANGED << state_json, del_args, del_state >>

\* main, lines 352-364: dms_delete_entry.py delete <path>
DeleteEntry ==
    /\ DeleteFrame
    /\ dpc = "idle"
    /\ state_json.exists /\ state_json.valid
    /\ \E file_path \in DeletePaths :
         \E r \in {delete_entry(state_json.state, file_path)} :
          /\ del_args' = [action |-> "delete", arg |-> file_path,
                          words_over |-> 0, response |-> "n"]
          /\ del_state' = r.state
          /\ IF r.ok
             THEN /\ state_json' = [exists |-> TRUE, valid |-> TRUE,
                                    state |-> r.state]
                  /\ del_exit' = "0"
             ELSE /\ UNCHANGED state_json
                  /\ del_exit' = "1"
    /\ dpc' = "done"

\* main, lines 366-371: dms_delete_entry.py by-pattern <pattern>; line 371
\* calls delete_by_pattern, a name the module does not define
DeleteByPattern ==
    /\ DeleteFrame
    /\ dpc = "idle"
    /\ state_json.exists /\ state_json.valid
    /\ \E pattern \in DeletePatterns, words_over \in WordsOver,
          response \in {"y", "n"} :
          del_args' = [action |-> "by-pattern", arg |-> pattern,
                       words_over |-> words_over, response |-> response]
    /\ del_state' = state_json.state
    /\ del_exit' = "traceback"
    /\ dpc' = "done"
    /\ UNCHANGED state_json

\* main, lines 344-345: no action on the command line, the menu opens
MenuOpen ==
    /\ DeleteFrame
    /\ dpc = "idle"
    /\ state_json.exists /\ state_json.valid
    /\ del_state' = state_json.state
    /\ dpc' = "menu"
    /\ UNCHANGED << state_json, del_args, del_exit >>

\* interactive_menu, lines 208-213: choice 2; an empty pattern goes back to
\* the menu, any other reaches the call of delete_by_pattern at line 211
MenuDeleteByPattern ==
    /\ DeleteFrame
    /\ dpc = "menu"
    /\ \E pattern \in DeletePatterns \cup {<<>>}, response \in {"y", "n"} :
          /\ del_args' = [action |-> "menu-pattern", arg |-> pattern,
                          words_over |-> 0, response |-> response]
          /\ IF pattern = <<>>
             THEN UNCHANGED << dpc, del_exit >>
             ELSE /\ dpc' = "done"
                  /\ del_exit' = "traceback"
    /\ UNCHANGED << state_json, del_state >>

\* interactive_menu, lines 283-285: choice 6
MenuExit ==
    /\ DeleteFrame
    /\ dpc = "menu"
    /\ del_args' = [action |-> "menu-exit", arg |-> <<>>,
                    words_over |-> 0, response |-> "n"]
    /\ dpc' = "done"
    /\ del_exit' = "0"
    /\ UNCHANGED << state_json, del_state >>

\* interactive_menu, lines 287-298: choice 7
MenuSave ==
    /\ DeleteFrame
    /\ dpc = "menu"
    /\ del_args' = [action |-> "menu-save", arg |-> <<>>,
                    words_over |-> 0, response |-> "n"]
    /\ dpc' = "done"
    /\ IF del_state.documents # <<>>
       THEN /\ state_json' = [exists |-> TRUE, valid |-> TRUE,
                              state |-> del_state]
            /\ del_exit' = "0"
       ELSE /\ UNCHANGED state_json
            /\ del_exit' = "1"
    /\ UNCHANGED del_state

NextDelete ==
    \/ DeleteLoadFailed
    \/ DeleteEntry
    \/ DeleteByPattern
    \/ MenuOpen
    \/ MenuDeleteByPattern
    \/ MenuExit
    \/ MenuSave

SpecDelete == InitDelete /\ [][NextDelete]_vars

\* Scan's classification of a file of the document root against the
\* Ledger: new when its path is absent from the Ledger
ScanPath(f) == <<".", "/">> \o f

ScanSaysNew(ledger_state, fs, f) ==
    Exists(fs, f) /\ ScanPath(f) \notin KeysOf(ledger_state)

\* C22 - delete-then-scan: when "delete <path>" is over and the path, with
\* './' put in front when it was given without, was in the Ledger, the
\* command ended with 0, the saved Ledger no longer holds the path, holds
\* every other entry as it was, and the next Scan calls the file new if it
\* exists; when the path was not in the Ledger the command ended with 1
\* and the Ledger file is as it was.
C22_DeleteThenScan ==
    (dpc = "done" /\ del_args # <<>> /\ del_args.action = "delete") =>
        \A key \in {NormalizePath(del_args.arg)} :
           IF key \in KeysOf(del_before.state)
           THEN /\ del_exit = "0"
                /\ state_json.exists /\ state_json.valid
                /\ key \notin KeysOf(state_json.state)
                /\ state_json.state.documents
                     = SelectSeq(del_before.state.documents,
                                 LAMBDA d : d.path # key)
                /\ state_json.state.categories = del_before.state.categories
                /\ \A f \in DeleteFiles :
                      (ScanPath(f) = key /\ Exists(files, f))
                          => ScanSaysNew(state_json.state, files, f)
           ELSE /\ del_exit = "1"
                /\ state_json = del_before

\* a path given without './' was deleted, another entry stayed, and the
\* file is still there
C22_Witness ==
    /\ dpc = "done" /\ del_args # <<>> /\ del_args.action = "delete"
    /\ del_args.arg = <<"a">>
    /\ <<".", "/", "a">> \in KeysOf(del_before.state)
    /\ <<".", "/", "a">> \notin KeysOf(state_json.state)
    /\ state_json.state.documents # <<>>
    /\ Exists(files, <<"a">>)

\* pattern_lower in path.lower(), and the summary longer than words_over
\* when that was given
PatternMatches(d, pattern, words_over) ==
    /\ Contains(Lower(d.path), Lower(pattern))
    /\ (words_over # 0 => Cardinality(Words(d.summary)) > words_over)

\* C23 - delete by pattern: when "by-pattern" or choice 2 of the menu is
\* over and the operator confirmed, the Ledger file holds exactly the
\* entries that do not match the pattern (and the word limit).
C23_PatternDeleted ==
    (/\ dpc = "done" /\ del_args # <<>>
     /\ del_args.action \in {"by-pattern", "menu-pattern"}
     /\ del_args.response = "y") =>
        /\ state_json.exists /\ state_json.valid
        /\ state_json.state.documents
             = SelectSeq(del_before.state.documents,
                         LAMBDA d : ~PatternMatches(d, del_args.arg,
                                                    del_args.words_over))

(***************************************************************************)
(* The hash Apply records, files that change before Apply, and the Scan    *)
(* that follows.                                                           *)
(***************************************************************************)
\* Scan's own digest of a file: "sha256:" and the SHA-256 of its bytes
ScanHash(bytes) ==
    CASE bytes = "missing" -> "sha256:missing"
      [] bytes = "bytes1" -> "sha256:1"
      [] OTHER -> "sha256:2"

\* Scan's classification of path p against the Ledger pf and the files fs
ScanClass(pf, fs, p) ==
    IF \A i \in 1..Len(pf) : pf[i].path # p
    THEN IF fs[p] = "missing" THEN "none" ELSE "new"
    ELSE IF fs[p] = "missing" THEN "missing"
    ELSE IF \E i \in 1..Len(pf) :
               pf[i].path = p /\ pf[i].hash # ScanHash(fs[p])
    THEN "changed" ELSE "unchanged"

\* the Change Report: the new and the changed files, unchanged ones left out
ScanReport(pf, fs) ==
    LET listed == SelectSeq(PathList,
                     LAMBDA p : ScanClass(pf, fs, p) \in {"new", "changed"})
    IN [i \in 1..Len(listed) |->
           [path |-> listed[i], hash |-> ScanHash(fs[listed[i]])]]

HashApproved == { a \in ApprovedSets :
                    a # <<>> /\ \A i \in 1..Len(a) : a[i].file_keys }

\* the usual shell with each kind of snapshot, and each section layout
HashDocuments ==
    { Document("body", snap, TRUE,
               SecGuides(<<Li("a.txt")>>) \o SecScripts(<<>>)) :
        snap \in {"valid", "malformed", "none"} }
    \cup { Document("body", "valid", TRUE, secs) : secs \in SectionLayouts }

\* the Scan and the summaries are done, one Apply is to come
InitHash ==
    /\ DeleteIdle
    /\ index_html \in HashDocuments
    /\ backups = [t \in 0..MaxClock |-> <<>>]
    /\ now = MaxClock
    /\ files = [p \in Paths |-> "bytes1"]
    /\ pending = [exists |-> FALSE, approved_summaries |-> <<>>]
    /\ pc = "idle"
    /\ NoLocals
    /\ out = <<>>
    /\ pre_index = <<>>
    /\ applies = MaxApplies - 1
    /\ staged \in HashApproved
    /\ applied = <<>>
    /\ n_backups = 0
    /\ n_writes = 0
    /\ LocatorIdle /\ MigrateIdle /\ CleanupIdle /\ OcrIdle
    /\ SummarizeIdle
    /\ RoundTripIdle

\* between Scan/Summarize and Apply somebody edits or removes a file whose
\* summary is waiting in .dms_pending.json
FileEdited ==
    /\ UNCHANGED << sum_vars, rt_vars, aux_vars >>
    /\ pc = "idle"
    /\ pending.exists
    /\ \E i \in 1..Len(pending.approved_summaries),
          bytes \in {"bytes2", "missing"} :
          /\ files[pending.approved_summaries[i].path] = "bytes1"
          /\ files' = [files EXCEPT
                          ![pending.approved_summaries[i].path] = bytes]
    /\ UNCHANGED apply_vars

\* dms scan, between two runs of Apply: it reads the Ledger and the files
\* and writes the Change Report
HashScan ==
    /\ UNCHANGED << apply_vars, files, rt_vars, aux_vars >>
    /\ pc = "idle"
    /\ scan_json' =
         [exists |-> TRUE,
          files |-> ScanReport(extract_dms_state(index_html).processed_files,
                               files)]
    /\ UNCHANGED << pending_summaries, spc, dry_run, summaries, already_done,
                    files_to_process, sum_i, called, killed_generated, runs,
                    ollama, sum_exit, sum_out, folded >>

NextHash ==
    \/ Review
    \/ FileEdited
    \/ ApplyCompute
    \/ ApplyBackup
    \/ ApplyWrite
    \/ ApplyFinish
    \/ ApplyKilled
    \/ HashScan

SpecHash == InitHash /\ [][NextHash]_vars

\* an Apply ran to its end and nothing has been reviewed since
ApplyDone == pc = "idle" /\ ~pending.exists /\ applied # <<>>

C30_RecordsScannedHash ==
    ApplyDone =>
        \A pf \in {LedgerAfter} : \A i \in 1..Len(applied) :
           \A k \in 1..Len(pf) :
              pf[k].path = applied[i].path
                  => pf[k].hash = FileInfo(applied[i].path).hash

=============================================================================
